---- MODULE Spec2Model ----
(***************************************************************************)
(* coutil: tasks (eager / lazy) over coroutine frames, the wait_all /      *)
(* wait_any combinators, and generators with their single-pass iterator.   *)
(* Two revisions of basic_task live in the repository: the one with the    *)
(* destructive wait() (the header with the generators and the combinators) *)
(* and the earlier coutil.h, whose wait() leaves the handle alone.  Spec   *)
(* models the former, SpecV1 the latter.  SpecGen is the generator and its *)
(* iterators, SpecOwn the handles with their moves, SpecSlot the promises  *)
(* of a task and a generator side by side, SpecAwait a task that awaits a  *)
(* task, SpecAwaitIncrement a coroutine that awaits an increment, and      *)
(* SpecLoop the loops of wait(), wait_all and wait_any one resume() at a   *)
(* time.                                                                   *)
(***************************************************************************)
EXTENDS Integers, Sequences, FiniteSets, TLC

VARIABLES
    handle,     \* basic_task::co of every task object alive: NULL or a frame
    frames,     \* the coroutine frames (promise + suspension point)
    nframes,    \* frames allocated so far
    val,        \* the external variable the bodies write (val / p of the tests)
    aborted,    \* an assert() of a body failed: the program is gone
    last        \* the last call and what it gave back to its caller

vars == << handle, frames, nframes, val, aborted, last >>

(* ------------------------------ bounds --------------------------------- *)
MaxFrames == 2
MaxIota == 3

(* ----------------------------- constants ------------------------------- *)
NULL == 0      \* handle co = nullptr
None == << >>  \* no value: an optional is a sequence of length 0 or 1
Some(x) == << x >>

Handles == {"a", "b"}

(* -------------------------- coroutine bodies --------------------------- *)
(* A body is its segments between suspension points; a segment asserts the *)
(* external variable (pre), then writes it (wr).  After the last segment   *)
(* the body returns (co_return v / falls off the end) or throws.           *)
Seg(p, w) == [pre |-> p, wr |-> w]

Body ==
    [ta       |-> [void |-> TRUE,  throws |-> FALSE, end |-> None,
                   segs |-> << Seg(Some(0), Some(14)), Seg(Some(65), Some(-56)), Seg(Some(-128), Some(365)), Seg(Some(12), Some(19)) >>],
     tb       |-> [void |-> TRUE,  throws |-> FALSE, end |-> None,
                   segs |-> << Seg(Some(14), Some(65)), Seg(Some(-56), Some(-128)), Seg(Some(365), Some(12)), Seg(Some(19), Some(1777)) >>],
     set      |-> [void |-> TRUE,  throws |-> FALSE, end |-> None,
                   segs |-> << Seg(None, Some(44)) >>],
     add      |-> [void |-> FALSE, throws |-> FALSE, end |-> Some(13),
                   segs |-> << Seg(None, None) >>],
     throwi   |-> [void |-> FALSE, throws |-> TRUE,  end |-> Some(6),
                   segs |-> << Seg(None, None) >>],
     throwv   |-> [void |-> TRUE,  throws |-> TRUE,  end |-> Some(6),
                   segs |-> << Seg(None, None) >>],
     stepret  |-> [void |-> FALSE, throws |-> FALSE, end |-> Some(77),
                   segs |-> << Seg(None, Some(21)), Seg(None, None) >>],
     stepthrow |-> [void |-> TRUE, throws |-> TRUE,  end |-> Some(9),
                   segs |-> << Seg(None, None), Seg(None, Some(21)) >>],
     steps    |-> [void |-> FALSE, throws |-> FALSE, end |-> Some(88),
                   segs |-> << Seg(None, Some(61)), Seg(None, Some(62)), Seg(None, Some(63)) >>]]

\* the bodies the task specifications build; steps, with its two
\* suspension points, is the body of an awaited task only
BodyNames == DOMAIN Body \ {"steps"}

(* ------------------------------ frames --------------------------------- *)
NoFrame == [st |-> "free", body |-> "set", pc |-> 0, done |-> FALSE,
            stat |-> [idx |-> 0, v |-> 0]]
Destroyed == [NoFrame EXCEPT !.st = "destroyed"]

\* the promise right after construction: variant index 0 / ex, a null exception_ptr
NewFrame(bn) == [st |-> "live", body |-> bn, pc |-> 1, done |-> FALSE,
                 stat |-> [idx |-> 0, v |-> 0]]

\* the machine state an operation threads through its calls
Mach(F, v, ab) == [fr |-> F, val |-> v, ab |-> ab, tr |-> << >>,
                   exc |-> "none", acc |-> FALSE]
Here == Mach(frames, val, aborted)

\* what the caller saw of a call: the exception it raised (exc), the value
\* it returned (val, bool), the frames it stepped, in order (tr), and
\* when it repeats the call before it on the same object, how that one
\* ended (prev, "-" when it is no repeat)
Last(op, h, exc, v, b, tr) ==
    [op |-> op, h |-> h, args |-> << >>, exc |-> exc, val |-> v, bool |-> b,
     tr |-> tr, prev |-> IF last.op = op /\ last.h = h THEN last.exc ELSE "-"]
LastN(op, args, exc, tr) ==
    [op |-> op, h |-> "", args |-> args, exc |-> exc, val |-> None, bool |-> FALSE,
     tr |-> tr, prev |-> IF last.op = op /\ last.args = args THEN last.exc ELSE "-"]

\* a step whose unhandled_exception() stores nothing
StepFrameDropsError(S, f) ==
    LET F   == S.fr[f]
        b   == Body[F.body]
        seg == b.segs[F.pc]
        bad == seg.pre # None /\ S.val # seg.pre[1]
        out == IF b.throws \/ b.void THEN F.stat ELSE [idx |-> 1, v |-> b.end[1]]
    IN  IF S.ab THEN S
        ELSE IF bad THEN [S EXCEPT !.ab = TRUE, !.tr = Append(@, f)]
        ELSE [S EXCEPT
                !.val = IF seg.wr # None THEN seg.wr[1] ELSE @,
                !.tr = Append(@, f),
                !.fr[f] = IF F.pc < Len(b.segs)
                          THEN [F EXCEPT !.pc = @ + 1]
                          ELSE [F EXCEPT !.pc = @ + 1, !.done = TRUE, !.stat = out]]

(* ---------------------- one continuation step -------------------------- *)
\* co.resume() on a frame that is suspended and not done: run the segment
\* at pc.  A failed assert ends the program.  After the last segment the
\* promise takes the outcome (return_value / return_void /
\* unhandled_exception) and the frame stops at final_suspend.
StepFrame(S, f) ==
    LET F   == S.fr[f]
        b   == Body[F.body]
        seg == b.segs[F.pc]
        bad == seg.pre # None /\ S.val # seg.pre[1]
        out == IF b.throws THEN [idx |-> 0, v |-> b.end[1]]
               ELSE IF b.void THEN F.stat
               ELSE [idx |-> 1, v |-> b.end[1]]
    IN  IF S.ab THEN S
        ELSE IF bad THEN [S EXCEPT !.ab = TRUE, !.tr = Append(@, f)]
        ELSE [S EXCEPT
                !.val = IF seg.wr # None THEN seg.wr[1] ELSE @,
                !.tr = Append(@, f),
                !.fr[f] = IF F.pc < Len(b.segs)
                          THEN [F EXCEPT !.pc = @ + 1]
                          ELSE [F EXCEPT !.pc = @ + 1, !.done = TRUE, !.stat = out]]

\* coroutine_handle::destroy
DestroyFrame(S, f) == [S EXCEPT !.fr[f] = Destroyed]

(* ------------------------- basic_task members -------------------------- *)
Empty(h) == handle[h] = NULL

\* resume() that resumes whatever co.done() says
TaskResumeUnguarded(S, h) ==
    IF ~S.fr[handle[h]].done THEN StepFrame(S, handle[h])
    ELSE [S EXCEPT !.tr = Append(@, handle[h])]

\* the body of resume() past the empty() check
TaskResume(S, h) ==
    IF ~S.fr[handle[h]].done THEN StepFrame(S, handle[h]) ELSE S

\* while (!co.done()) co.resume();
RECURSIVE RunToDone(_, _)
RunToDone(S, f) ==
    IF S.ab \/ S.fr[f].done THEN S ELSE RunToDone(StepFrame(S, f), f)

\* what wait() hands back once the frame is done: the value, or the rethrow
Outcome(F) ==
    IF Body[F.body].void
    THEN IF F.stat.v # 0 THEN [exc |-> "rethrow", val |-> Some(F.stat.v)]
                         ELSE [exc |-> "none", val |-> None]
    ELSE IF F.stat.idx = 1 THEN [exc |-> "none", val |-> Some(F.stat.v)]
                           ELSE [exc |-> "rethrow", val |-> Some(F.stat.v)]

Commit(S, l) ==
    /\ frames' = S.fr
    /\ val' = S.val
    /\ aborted' = S.ab
    /\ last' = l

(* ------------------------------ actions -------------------------------- *)
\* construction with initial_suspend always suspending
ConstructSuspended(h, lazy, bn) ==
    /\ ~aborted
    /\ h \notin DOMAIN handle
    /\ nframes < MaxFrames
    /\ LET f  == nframes + 1
           S0 == [Here EXCEPT !.fr[f] = NewFrame(bn)]
       IN  /\ Commit(S0, Last(IF lazy THEN "lazy_task" ELSE "task", h, "none", None, FALSE, S0.tr))
           /\ handle' = [x \in DOMAIN handle \cup {h} |-> IF x = h THEN f ELSE handle[x]]
           /\ nframes' = f

\* construction with initial_suspend never suspending
ConstructStarted(h, lazy, bn) ==
    /\ ~aborted
    /\ h \notin DOMAIN handle
    /\ nframes < MaxFrames
    /\ LET f  == nframes + 1
           S1 == StepFrame([Here EXCEPT !.fr[f] = NewFrame(bn)], f)
       IN  /\ Commit(S1, Last(IF lazy THEN "lazy_task" ELSE "task", h, "none", None, FALSE, S1.tr))
           /\ handle' = [x \in DOMAIN handle \cup {h} |-> IF x = h THEN f ELSE handle[x]]
           /\ nframes' = f

\* T h = coroutine_function(): the frame is allocated, get_return_object makes
\* the handle, and initial_suspend decides whether the body starts now.
Construct(h, lazy, bn) ==
    /\ ~aborted
    /\ h \notin DOMAIN handle
    /\ nframes < MaxFrames
    /\ LET f  == nframes + 1
           S0 == [Here EXCEPT !.fr[f] = NewFrame(bn)]
           S1 == IF lazy THEN S0 ELSE StepFrame(S0, f)
       IN  /\ Commit(S1, Last(IF lazy THEN "lazy_task" ELSE "task", h, "none", None, FALSE, S1.tr))
           /\ handle' = [x \in DOMAIN handle \cup {h} |-> IF x = h THEN f ELSE handle[x]]
           /\ nframes' = f

\* basic_task() = default
DefaultConstruct(h) ==
    /\ ~aborted
    /\ h \notin DOMAIN handle
    /\ handle' = [x \in DOMAIN handle \cup {h} |-> IF x = h THEN NULL ELSE handle[x]]
    /\ last' = Last("default", h, "none", None, FALSE, << >>)
    /\ UNCHANGED << frames, nframes, val, aborted >>

\* basic_task(basic_task &&other)
MoveConstruct(h, o) ==
    /\ ~aborted
    /\ h \notin DOMAIN handle
    /\ o \in DOMAIN handle
    /\ handle' = [x \in DOMAIN handle \cup {h} |->
                    IF x = h THEN handle[o] ELSE IF x = o THEN NULL ELSE handle[x]]
    /\ last' = Last("move", h, "none", None, FALSE, << >>)
    /\ UNCHANGED << frames, nframes, val, aborted >>

\* ~basic_task()
Destruct(h) ==
    /\ ~aborted
    /\ h \in DOMAIN handle
    /\ LET S == IF handle[h] # NULL THEN DestroyFrame(Here, handle[h]) ELSE Here
       IN  Commit(S, Last("destruct", h, "none", None, FALSE, << >>))
    /\ handle' = [x \in DOMAIN handle \ {h} |-> handle[x]]
    /\ UNCHANGED << nframes >>

\* bool done() const
Done(h) ==
    /\ ~aborted
    /\ h \in DOMAIN handle
    /\ last' = IF Empty(h)
               THEN Last("done", h, "bad_coroutine_access", None, FALSE, << >>)
               ELSE Last("done", h, "none", None, frames[handle[h]].done, << >>)
    /\ UNCHANGED << handle, frames, nframes, val, aborted >>

\* resume() that returns quietly on an empty handle
ResumeUnchecked(h) ==
    /\ ~aborted
    /\ h \in DOMAIN handle
    /\ IF Empty(h)
       THEN Commit(Here, Last("resume", h, "none", None, FALSE, << >>))
       ELSE LET S == TaskResume(Here, h)
            IN  Commit(S, Last("resume", h, "none", None, FALSE, S.tr))
    /\ UNCHANGED << handle, nframes >>

\* void resume()
Resume(h) ==
    /\ ~aborted
    /\ h \in DOMAIN handle
    /\ IF Empty(h)
       THEN Commit(Here, Last("resume", h, "bad_coroutine_access", None, FALSE, << >>))
       ELSE LET S == TaskResume(Here, h)
            IN  Commit(S, Last("resume", h, "none", None, FALSE, S.tr))
    /\ UNCHANGED << handle, nframes >>

\* wait() without the sentry: the result is read and the frame is kept
WaitNoSentry(h) ==
    /\ ~aborted
    /\ h \in DOMAIN handle
    /\ IF Empty(h)
       THEN Commit(Here, Last("wait", h, "bad_coroutine_access", None, FALSE, << >>))
       ELSE LET S == RunToDone(Here, handle[h])
                o == Outcome(S.fr[handle[h]])
            IN  Commit(S, Last("wait", h, IF S.ab THEN "none" ELSE o.exc,
                               IF S.ab THEN None ELSE o.val, FALSE, S.tr))
    /\ UNCHANGED << handle, nframes >>

\* wait() whose sentry destroys the frame and leaves co as it was
WaitKeepsHandle(h) ==
    /\ ~aborted
    /\ h \in DOMAIN handle
    /\ IF Empty(h)
       THEN Commit(Here, Last("wait", h, "bad_coroutine_access", None, FALSE, << >>))
       ELSE LET f == handle[h]
                S == RunToDone(Here, f)
                o == Outcome(S.fr[f])
            IN  IF S.ab
                THEN Commit(S, Last("wait", h, "none", None, FALSE, S.tr))
                ELSE Commit(DestroyFrame(S, f), Last("wait", h, o.exc, o.val, FALSE, S.tr))
    /\ UNCHANGED << handle, nframes >>

\* decltype(auto) wait(): run to completion, then the sentry destroys the
\* frame and nulls co whether the value is returned or the error rethrown.
Wait(h) ==
    /\ ~aborted
    /\ h \in DOMAIN handle
    /\ IF Empty(h)
       THEN /\ Commit(Here, Last("wait", h, "bad_coroutine_access", None, FALSE, << >>))
            /\ UNCHANGED handle
       ELSE LET f == handle[h]
                S == RunToDone(Here, f)
                o == Outcome(S.fr[f])
            IN  IF S.ab
                THEN /\ Commit(S, Last("wait", h, "none", None, FALSE, S.tr))
                     /\ UNCHANGED handle
                ELSE /\ Commit(DestroyFrame(S, f), Last("wait", h, o.exc, o.val, FALSE, S.tr))
                     /\ handle' = [handle EXCEPT ![h] = NULL]
    /\ UNCHANGED << nframes >>

(* ----------------------------- combinators ----------------------------- *)
\* The folds (... | (tasks.resume(), !tasks.done())) have no sequencing
\* between the operands of |: the build picks the order, first operand
\* first or last operand first.  (A build that runs every resume() before
\* any done() leaves the same states as one of these two.)
Reverse(s) == [i \in 1..Len(s) |-> s[Len(s) + 1 - i]]
EvalOrders(args) == {args, Reverse(args)}

\* one operand of the fold: (tasks.resume(), tasks.done()), or-ed into acc
\* negated (wait_all) or as it is (wait_any)
Operand(S, h, negate) ==
    IF S.ab \/ S.exc # "none" THEN S
    ELSE IF Empty(h) THEN [S EXCEPT !.exc = "bad_coroutine_access"]
    ELSE LET S1 == TaskResume(S, h)
         IN  IF S1.ab THEN S1
             ELSE [S1 EXCEPT !.acc = @ \/ (S1.fr[handle[h]].done # negate)]

RECURSIVE Pass(_, _, _)
Pass(S, order, negate) ==
    IF order = << >> THEN S
    ELSE Pass(Operand(S, Head(order), negate), Tail(order), negate)

\* wait_all / wait_any with an if for the while: one pass
WaitAllOnePass(S, order) == Pass([S EXCEPT !.acc = FALSE], order, TRUE)
WaitAnyOnePass(S, order) == Pass([S EXCEPT !.acc = FALSE], order, FALSE)

\* while ((... | (tasks.resume(), !tasks.done())));
RECURSIVE WaitAllLoop(_, _)
WaitAllLoop(S, order) ==
    LET P == Pass([S EXCEPT !.acc = FALSE], order, TRUE)
    IN  IF P.ab \/ P.exc # "none" \/ ~P.acc THEN P ELSE WaitAllLoop(P, order)

\* while (!(... | (tasks.resume(), tasks.done())));
RECURSIVE WaitAnyLoop(_, _)
WaitAnyLoop(S, order) ==
    LET P == Pass([S EXCEPT !.acc = FALSE], order, FALSE)
    IN  IF P.ab \/ P.exc # "none" \/ P.acc THEN P ELSE WaitAnyLoop(P, order)

\* the argument lists: one or more distinct task objects
ArgLists ==
    { s \in UNION { [1..n -> DOMAIN handle] : n \in 1..Cardinality(Handles) } :
        \A i, j \in DOMAIN s : i # j => s[i] # s[j] }

\* wait_all(tasks...) as a build that evaluates the operands in `order` runs it
WaitAllIn(args, order) ==
    /\ ~aborted
    /\ args \in ArgLists
    /\ LET S == WaitAllLoop(Here, order)
       IN  Commit(S, LastN("wait_all", args, S.exc, S.tr))
    /\ UNCHANGED << handle, nframes >>

WaitAll(args) == \E order \in EvalOrders(args) : WaitAllIn(args, order)

WaitAny(args) ==
    /\ ~aborted
    /\ args \in ArgLists
    /\ \E order \in EvalOrders(args) :
         LET S == WaitAnyLoop(Here, order)
         IN  Commit(S, LastN("wait_any", args, S.exc, S.tr))
    /\ UNCHANGED << handle, nframes >>

(* --------------- the earlier revision of basic_task -------------------- *)
\* coutil.h: done() and resume() as above; wait() runs the frame to
\* completion and reads the promise, and leaves the frame and co alone.
DoneV1(h) ==
    /\ ~aborted
    /\ h \in DOMAIN handle
    /\ last' = IF handle[h] = NULL
               THEN Last("done", h, "bad_coroutine_access", None, FALSE, << >>)
               ELSE Last("done", h, "none", None, frames[handle[h]].done, << >>)
    /\ UNCHANGED << handle, frames, nframes, val, aborted >>

ResumeV1(h) ==
    /\ ~aborted
    /\ h \in DOMAIN handle
    /\ IF handle[h] = NULL
       THEN Commit(Here, Last("resume", h, "bad_coroutine_access", None, FALSE, << >>))
       ELSE LET f == handle[h]
                S == IF ~frames[f].done THEN StepFrame(Here, f) ELSE Here
            IN  Commit(S, Last("resume", h, "none", None, FALSE, S.tr))
    /\ UNCHANGED << handle, nframes >>

\* the earlier wait() behaving as the later one
WaitV1Consumes(h) == Wait(h)

WaitV1(h) ==
    /\ ~aborted
    /\ h \in DOMAIN handle
    /\ IF handle[h] = NULL
       THEN Commit(Here, Last("wait", h, "bad_coroutine_access", None, FALSE, << >>))
       ELSE LET f == handle[h]
                S == RunToDone(Here, f)
                o == Outcome(S.fr[f])
            IN  IF S.ab
                THEN Commit(S, Last("wait", h, "none", None, FALSE, S.tr))
                ELSE Commit(S, Last("wait", h, o.exc, o.val, FALSE, S.tr))
    /\ UNCHANGED << handle, nframes >>

(* --------------------------- specification ----------------------------- *)
Init ==
    /\ handle = [x \in {} |-> NULL]
    /\ frames = [f \in 1..MaxFrames |-> NoFrame]
    /\ nframes = 0
    /\ val = 0
    /\ aborted = FALSE
    /\ last = [op |-> "init", h |-> "", args |-> << >>, exc |-> "none", val |-> None,
               bool |-> FALSE, tr |-> << >>, prev |-> "-"]

Next ==
    \/ \E h \in Handles, lazy \in BOOLEAN, bn \in BodyNames : Construct(h, lazy, bn)
    \/ \E h \in Handles : DefaultConstruct(h)
    \/ \E h, o \in Handles : MoveConstruct(h, o)
    \/ \E h \in Handles : Destruct(h)
    \/ \E h \in Handles : Done(h)
    \/ \E h \in Handles : Resume(h)
    \/ \E h \in Handles : Wait(h)
    \/ \E args \in ArgLists : WaitAll(args)
    \/ \E args \in ArgLists : WaitAny(args)

Spec == Init /\ [][Next]_vars

NextV1 ==
    \/ \E h \in Handles, lazy \in BOOLEAN, bn \in BodyNames : Construct(h, lazy, bn)
    \/ \E h \in Handles : DefaultConstruct(h)
    \/ \E h, o \in Handles : MoveConstruct(h, o)
    \/ \E h \in Handles : Destruct(h)
    \/ \E h \in Handles : DoneV1(h)
    \/ \E h \in Handles : ResumeV1(h)
    \/ \E h \in Handles : WaitV1(h)

SpecV1 == Init /\ [][NextV1]_vars

(* ----------------------------- generators ----------------------------- *)
(* basic_generator<int>, its iterator and the pseudo_iterator an increment *)
(* returns.  Generator and iterator objects own frames through the same    *)
(* kind of handle as tasks; a generator frame also has the promise's       *)
(* yield_flag and the body's loop variable.                                *)
Gens == {"g"}
Iters == {"i", "j"}

\* A segment of a generator body is what one resume() runs: a write of the
\* external variable (wr), and then how it stops (how): at a co_yield of v
\* (v = None: of the loop variable, i++), at a suspension that yields
\* nothing, at the end of the body, or by throwing v.  A body that loops
\* goes back to its first segment after the last.
GSeg(w, how, v) == [wr |-> w, how |-> how, v |-> v]

GenBody ==
    [gen123   |-> [loop |-> FALSE,
                   segs |-> << GSeg(None, "yield", Some(1)), GSeg(None, "yield", Some(2)),
                               GSeg(None, "yield", Some(3)), GSeg(None, "return", None) >>],
     gen1stop |-> [loop |-> FALSE,
                   segs |-> << GSeg(None, "yield", Some(7)), GSeg(None, "return", None) >>],
     empty    |-> [loop |-> FALSE,
                   segs |-> << GSeg(None, "return", None) >>],
     iota     |-> [loop |-> TRUE,
                   segs |-> << GSeg(None, "yield", None) >>],
     gthrow   |-> [loop |-> FALSE,
                   segs |-> << GSeg(Some(33), "throw", Some(6)) >>],
     ythrow   |-> [loop |-> FALSE,
                   segs |-> << GSeg(Some(31), "yield", Some(1)), GSeg(None, "throw", Some(6)) >>],
     gsteps   |-> [loop |-> FALSE,
                   segs |-> << GSeg(Some(41), "suspend", None), GSeg(None, "yield", Some(5)),
                               GSeg(None, "suspend", None), GSeg(Some(42), "return", None) >>]]

GenBodyNames == DOMAIN GenBody

\* the frame of a generator at its initial suspension: stat holds index 0,
\* a null exception_ptr, and the flag is down
NewGenFrame(bn) == [st |-> "live", body |-> bn, pc |-> 1, done |-> FALSE,
                    stat |-> [idx |-> 0, v |-> 0], yield_flag |-> FALSE, i |-> 0]

\* a step whose unhandled_exception stores nothing
StepGenDropsError(S, f) ==
    LET F   == S.fr[f]
        b   == GenBody[F.body]
        seg == b.segs[F.pc]
        nxt == IF F.pc = Len(b.segs) /\ b.loop THEN 1 ELSE F.pc + 1
        S1  == [S EXCEPT !.val = IF seg.wr # None THEN seg.wr[1] ELSE @,
                         !.tr = Append(@, f)]
    IN  IF S.ab THEN S
        ELSE IF seg.how = "yield"
        THEN [S1 EXCEPT !.fr[f] =
                 [F EXCEPT !.pc = nxt, !.yield_flag = TRUE,
                           !.stat = [idx |-> 1, v |-> IF seg.v # None THEN seg.v[1] ELSE F.i],
                           !.i = IF seg.v # None THEN @ ELSE @ + 1]]
        ELSE IF seg.how = "suspend"
        THEN [S1 EXCEPT !.fr[f] = [F EXCEPT !.pc = nxt]]
        ELSE [S1 EXCEPT !.fr[f] = [F EXCEPT !.pc = nxt, !.done = TRUE]]

\* a step whose yield_value does not suspend: the body runs on to the
\* yield after it
StepGenYieldThrough(S, f) ==
    LET F   == S.fr[f]
        b   == GenBody[F.body]
        seg == b.segs[F.pc]
        nxt == IF F.pc = Len(b.segs) /\ b.loop THEN 1 ELSE F.pc + 1
        S1  == [S EXCEPT !.val = IF seg.wr # None THEN seg.wr[1] ELSE @,
                         !.tr = Append(@, f)]
    IN  IF S.ab THEN S
        ELSE IF seg.how = "yield"
        THEN [S1 EXCEPT !.fr[f] =
                 [F EXCEPT !.pc = nxt, !.yield_flag = TRUE,
                           !.stat = [idx |-> 1, v |-> IF seg.v # None THEN seg.v[1] ELSE F.i + 1],
                           !.i = IF seg.v # None THEN @ ELSE @ + 2]]
        ELSE IF seg.how = "suspend"
        THEN [S1 EXCEPT !.fr[f] = [F EXCEPT !.pc = nxt]]
        ELSE IF seg.how = "throw"
        THEN [S1 EXCEPT !.fr[f] =
                 [F EXCEPT !.pc = nxt, !.done = TRUE, !.stat = [idx |-> 0, v |-> seg.v[1]]]]
        ELSE [S1 EXCEPT !.fr[f] = [F EXCEPT !.pc = nxt, !.done = TRUE]]

\* a step whose yield_value keeps the element the slot already holds
StepGenKeepsFirst(S, f) ==
    LET F   == S.fr[f]
        b   == GenBody[F.body]
        seg == b.segs[F.pc]
        nxt == IF F.pc = Len(b.segs) /\ b.loop THEN 1 ELSE F.pc + 1
        S1  == [S EXCEPT !.val = IF seg.wr # None THEN seg.wr[1] ELSE @,
                         !.tr = Append(@, f)]
    IN  IF S.ab THEN S
        ELSE IF seg.how = "yield"
        THEN [S1 EXCEPT !.fr[f] =
                 [F EXCEPT !.pc = nxt, !.yield_flag = TRUE,
                           !.stat = IF F.stat.idx = 1 THEN @
                                    ELSE [idx |-> 1, v |-> IF seg.v # None THEN seg.v[1] ELSE F.i],
                           !.i = IF seg.v # None THEN @ ELSE @ + 1]]
        ELSE IF seg.how = "suspend"
        THEN [S1 EXCEPT !.fr[f] = [F EXCEPT !.pc = nxt]]
        ELSE IF seg.how = "throw"
        THEN [S1 EXCEPT !.fr[f] =
                 [F EXCEPT !.pc = nxt, !.done = TRUE, !.stat = [idx |-> 0, v |-> seg.v[1]]]]
        ELSE [S1 EXCEPT !.fr[f] = [F EXCEPT !.pc = nxt, !.done = TRUE]]

\* co.resume() on a generator frame: run the segment at pc.  co_yield goes
\* through yield_value (the element into stat, the flag up); a throw goes
\* through unhandled_exception and on to final_suspend; the end of the body
\* goes to final_suspend and leaves stat as it is.
StepGen(S, f) ==
    LET F   == S.fr[f]
        b   == GenBody[F.body]
        seg == b.segs[F.pc]
        nxt == IF F.pc = Len(b.segs) /\ b.loop THEN 1 ELSE F.pc + 1
        S1  == [S EXCEPT !.val = IF seg.wr # None THEN seg.wr[1] ELSE @,
                         !.tr = Append(@, f)]
    IN  IF S.ab THEN S
        ELSE IF seg.how = "yield"
        THEN [S1 EXCEPT !.fr[f] =
                 [F EXCEPT !.pc = nxt, !.yield_flag = TRUE,
                           !.stat = [idx |-> 1, v |-> IF seg.v # None THEN seg.v[1] ELSE F.i],
                           !.i = IF seg.v # None THEN @ ELSE @ + 1]]
        ELSE IF seg.how = "suspend"
        THEN [S1 EXCEPT !.fr[f] = [F EXCEPT !.pc = nxt]]
        ELSE IF seg.how = "throw"
        THEN [S1 EXCEPT !.fr[f] =
                 [F EXCEPT !.pc = nxt, !.done = TRUE, !.stat = [idx |-> 0, v |-> seg.v[1]]]]
        ELSE [S1 EXCEPT !.fr[f] = [F EXCEPT !.pc = nxt, !.done = TRUE]]

\* pseudo_iterator::done()
PseudoDone(S, f) == S.fr[f].done \/ S.fr[f].yield_flag

\* while (!done()) it->co.resume();
RECURSIVE PseudoWaitLoop(_, _)
PseudoWaitLoop(S, f) ==
    IF S.ab \/ PseudoDone(S, f) THEN S ELSE PseudoWaitLoop(StepGen(S, f), f)

\* a pseudo_iterator whose destructor does not wait: the constructor's
\* resume is all the advance there is
AdvanceNoWait(S, f) ==
    StepGen([S EXCEPT !.fr[f].yield_flag = FALSE], f)

\* pseudo_iterator{*this} dropped at the end of the expression: the
\* constructor lowers the flag and resumes once, the destructor waits
Advance(S, f) ==
    PseudoWaitLoop(StepGen([S EXCEPT !.fr[f].yield_flag = FALSE], f), f)

\* a wait() that keeps the frame of a body that threw, for operator* to
\* find the error in
SettleKeepsError(S, f) ==
    IF ~S.ab /\ S.fr[f].done /\ ~(S.fr[f].stat.idx = 0 /\ S.fr[f].stat.v # 0)
    THEN [S |-> DestroyFrame(S, f), co |-> NULL]
    ELSE [S |-> S, co |-> f]

\* the end of pseudo_iterator::wait(): a frame that is done is destroyed and
\* the iterator's co nulled.  Gives the machine state and the iterator's co.
Settle(S, f) ==
    IF ~S.ab /\ S.fr[f].done
    THEN [S |-> DestroyFrame(S, f), co |-> NULL]
    ELSE [S |-> S, co |-> f]

\* the loop of my_iota is cut at MaxIota elements
CanAdvance(f) ==
    GenBody[frames[f].body].loop => frames[f].i < MaxIota

\* construction of a generator whose initial_suspend does not suspend
GenConstructStarted(g, bn) ==
    /\ ~aborted
    /\ g \notin DOMAIN handle
    /\ nframes < MaxFrames
    /\ LET f  == nframes + 1
           S0 == StepGen([Here EXCEPT !.fr[f] = NewGenFrame(bn)], f)
       IN  /\ Commit(S0, Last("generator", g, "none", None, FALSE, S0.tr))
           /\ handle' = [x \in DOMAIN handle \cup {g} |-> IF x = g THEN f ELSE handle[x]]
           /\ nframes' = f

\* generator<int> g = body()
GenConstruct(g, bn) ==
    /\ ~aborted
    /\ g \notin DOMAIN handle
    /\ nframes < MaxFrames
    /\ LET f  == nframes + 1
           S0 == [Here EXCEPT !.fr[f] = NewGenFrame(bn)]
       IN  /\ Commit(S0, Last("generator", g, "none", None, FALSE, S0.tr))
           /\ handle' = [x \in DOMAIN handle \cup {g} |-> IF x = g THEN f ELSE handle[x]]
           /\ nframes' = f

\* ~basic_generator()
GenDestruct(g) ==
    /\ ~aborted
    /\ g \in DOMAIN handle
    /\ LET S == IF handle[g] # NULL THEN DestroyFrame(Here, handle[g]) ELSE Here
       IN  Commit(S, Last("destruct", g, "none", None, FALSE, << >>))
    /\ handle' = [x \in DOMAIN handle \ {g} |-> handle[x]]
    /\ UNCHANGED << nframes >>

\* begin() that hands out co and keeps it: iterator{ co }
BeginKeepsFrame(g, i) ==
    /\ ~aborted
    /\ g \in DOMAIN handle
    /\ i \notin DOMAIN handle
    /\ IF handle[g] = NULL
       THEN /\ Commit(Here, [Last("begin", i, "none", None, FALSE, << >>) EXCEPT !.args = << g >>])
            /\ handle' = [x \in DOMAIN handle \cup {i} |-> IF x = i THEN NULL ELSE handle[x]]
       ELSE /\ frames[handle[g]].st = "live" /\ ~frames[handle[g]].done
            /\ CanAdvance(handle[g])
            /\ LET f == handle[g]
                   R == Settle(Advance(Here, f), f)
               IN  /\ Commit(R.S, [Last("begin", i, "none", None, FALSE, R.S.tr) EXCEPT !.args = << g >>])
                   /\ handle' = [x \in DOMAIN handle \cup {i} |-> IF x = i THEN R.co ELSE handle[x]]
    /\ UNCHANGED << nframes >>

\* auto i = g.begin(): iterator{ std::exchange(co, nullptr) }, whose
\* constructor advances once when it got a frame
Begin(g, i) ==
    /\ ~aborted
    /\ g \in DOMAIN handle
    /\ i \notin DOMAIN handle
    /\ IF handle[g] = NULL
       THEN /\ Commit(Here, [Last("begin", i, "none", None, FALSE, << >>) EXCEPT !.args = << g >>])
            /\ handle' = [x \in DOMAIN handle \cup {i} |-> IF x = i THEN NULL ELSE handle[x]]
       ELSE /\ CanAdvance(handle[g])
            /\ LET f == handle[g]
                   R == Settle(Advance(Here, f), f)
               IN  /\ Commit(R.S, [Last("begin", i, "none", None, FALSE, R.S.tr) EXCEPT !.args = << g >>])
                   /\ handle' = [x \in DOMAIN handle \cup {i} |->
                                   IF x = i THEN R.co ELSE IF x = g THEN NULL ELSE handle[x]]
    /\ UNCHANGED << nframes >>

\* auto i = g.end(): iterator{}
End(g, i) ==
    /\ ~aborted
    /\ g \in DOMAIN handle
    /\ i \notin DOMAIN handle
    /\ handle' = [x \in DOMAIN handle \cup {i} |-> IF x = i THEN NULL ELSE handle[x]]
    /\ last' = [Last("end", i, "none", None, FALSE, << >>) EXCEPT !.args = << g >>]
    /\ UNCHANGED << frames, nframes, val, aborted >>

\* ~iterator()
ItDestruct(i) ==
    /\ ~aborted
    /\ i \in DOMAIN handle
    /\ LET S == IF handle[i] # NULL THEN DestroyFrame(Here, handle[i]) ELSE Here
       IN  Commit(S, Last("destruct", i, "none", None, FALSE, << >>))
    /\ handle' = [x \in DOMAIN handle \ {i} |-> handle[x]]
    /\ UNCHANGED << nframes >>

\* operator++ that returns quietly on the end iterator
IncrementUnchecked(i) ==
    /\ ~aborted
    /\ i \in DOMAIN handle
    /\ IF handle[i] = NULL
       THEN /\ Commit(Here, Last("++", i, "none", None, FALSE, << >>))
            /\ UNCHANGED handle
       ELSE /\ CanAdvance(handle[i])
            /\ LET f == handle[i]
                   R == Settle(Advance(Here, f), f)
               IN  /\ Commit(R.S, Last("++", i, "none", None, FALSE, R.S.tr))
                   /\ handle' = [handle EXCEPT ![i] = R.co]
    /\ UNCHANGED << nframes >>

\* ++i; as a statement: operator++ and the pseudo_iterator it returns,
\* destroyed at the end of the full expression
Increment(i) ==
    /\ ~aborted
    /\ i \in DOMAIN handle
    /\ IF handle[i] = NULL
       THEN /\ Commit(Here, Last("++", i, "invalid_argument", None, FALSE, << >>))
            /\ UNCHANGED handle
       ELSE /\ CanAdvance(handle[i])
            /\ LET f == handle[i]
                   R == Settle(Advance(Here, f), f)
               IN  /\ Commit(R.S, Last("++", i, "none", None, FALSE, R.S.tr))
                   /\ handle' = [handle EXCEPT ![i] = R.co]
    /\ UNCHANGED << nframes >>

\* *i on an iterator whose co is null reads the promise of no frame: the
\* behaviour is undefined.  The program crashes, or the read gives back
\* whatever lies there.
Garbage == {0, 6}

\* what operator* does on an iterator whose co is `co`: rethrow the stored
\* exception, return the stored element, or fail in std::get<1>
DerefOutcomes(co, fr) ==
    IF co = NULL
    THEN {[exc |-> "none", val |-> None, ab |-> TRUE]}
           \cup {[exc |-> "none", val |-> Some(x), ab |-> FALSE] : x \in Garbage}
    ELSE LET st == fr[co].stat
         IN  IF st.idx = 0 /\ st.v # 0
             THEN {[exc |-> "rethrow", val |-> Some(st.v), ab |-> FALSE]}
             ELSE IF st.idx = 1
             THEN {[exc |-> "none", val |-> Some(st.v), ab |-> FALSE]}
             ELSE {[exc |-> "bad_variant_access", val |-> None, ab |-> FALSE]}

\* const T &operator*() const&
Deref(i) ==
    /\ ~aborted
    /\ i \in DOMAIN handle
    /\ \E o \in DerefOutcomes(handle[i], frames) :
         Commit([Here EXCEPT !.ab = o.ab], Last("*", i, o.exc, o.val, FALSE, << >>))
    /\ UNCHANGED << handle, nframes >>

\* operator==(a, b)
Equal(a, b) ==
    /\ ~aborted
    /\ a \in DOMAIN handle /\ b \in DOMAIN handle
    /\ last' = [Last("==", a, "none", None, handle[a] = NULL /\ handle[b] = NULL, << >>)
                  EXCEPT !.args = << a, b >>]
    /\ UNCHANGED << handle, frames, nframes, val, aborted >>

NextGen ==
    \/ \E g \in Gens, bn \in GenBodyNames : GenConstruct(g, bn)
    \/ \E g \in Gens : GenDestruct(g)
    \/ \E g \in Gens, i \in Iters : Begin(g, i)
    \/ \E g \in Gens, i \in Iters : End(g, i)
    \/ \E i \in Iters : ItDestruct(i)
    \/ \E i \in Iters : Increment(i)
    \/ \E i \in Iters : Deref(i)
    \/ \E a, b \in Iters : Equal(a, b)

SpecGen == Init /\ [][NextGen]_vars

(* ------------------------------ claims --------------------------------- *)
FrameOf(h) == frames[handle[h]]
NonEmpty(h) == h \in DOMAIN handle /\ handle[h] # NULL
\* the steps a frame still has before final_suspend
Remaining(F) == IF F.done THEN 0 ELSE Len(Body[F.body].segs) + 1 - F.pc
Count(tr, f) == Cardinality({ i \in DOMAIN tr : tr[i] = f })
\* what the body of a frame ends in, as wait() reports it
Expected(bn) ==
    IF Body[bn].throws THEN [exc |-> "rethrow", val |-> Body[bn].end]
    ELSE [exc |-> "none", val |-> Body[bn].end]

C2_DoneAfterWaitLater ==
    [][\A h \in Handles :
        (last.op = "wait" /\ last.h = h /\ last.exc = "none" /\ last.val = None
           /\ last'.op = "done" /\ last'.h = h /\ Done(h)) =>
              /\ last'.exc = "none"
              /\ last'.bool = TRUE
    ]_vars

\* the wait_all block of the test: a and b constructed in that order, both
\* suspended at their first co_await
TestAB ==
    /\ NonEmpty("a") /\ NonEmpty("b")
    /\ handle["a"] < handle["b"]
    /\ FrameOf("a").body = "ta" /\ FrameOf("a").pc = 2
    /\ FrameOf("b").body = "tb" /\ FrameOf("b").pc = 2
    /\ val = 65

\* C3: wait_all(a, b) in the test's state steps a, b, a, b, a, b, no assert
\* of a body fails, and the external variable ends at 1777.
C3_StrictAlternation ==
    [][(last'.op = "wait_all" /\ TestAB /\ WaitAll(<< "a", "b" >>)) =>
          /\ last'.tr = << handle["a"], handle["b"], handle["a"], handle["b"],
                           handle["a"], handle["b"] >>
          /\ ~aborted'
          /\ val' = 1777
    ]_vars

AllNonEmpty(args) == \A i \in DOMAIN args : NonEmpty(args[i])

\* C3 on a build that evaluates the fold left to right: there the steps
\* alternate a, b, a, b, a, b and the external variable ends at 1777.
C3_LeftToRight ==
    [][(last'.op = "wait_all" /\ TestAB /\ WaitAllIn(<< "a", "b" >>, << "a", "b" >>)) =>
          /\ last'.tr = << handle["a"], handle["b"], handle["a"], handle["b"],
                           handle["a"], handle["b"] >>
          /\ ~aborted'
          /\ val' = 1777
    ]_vars

\* wait_all(a, b) of the test has run all six steps
C3_WitnessLeftToRight ==
    /\ last.op = "wait_all" /\ last.args = << "a", "b" >>
    /\ Len(last.tr) = 6
    /\ val = 1777 /\ ~aborted

\* C4: when wait_all returns on non-empty tasks, no error was raised, every
\* task still holds its frame, the frame is done and holds the outcome of
\* its body for a later wait(), and each frame got exactly the steps it had
\* left (a done task got none).
C4_WaitAllPost ==
    [][\A args \in ArgLists :
        (last'.op = "wait_all" /\ last'.args = args /\ WaitAll(args)
           /\ AllNonEmpty(args) /\ ~aborted') =>
            /\ last'.exc = "none"
            /\ handle' = handle
            /\ \A i \in DOMAIN args :
                 LET f == handle[args[i]]
                 IN  /\ frames'[f].st = "live"
                     /\ frames'[f].done
                     /\ Outcome(frames'[f]) = Expected(frames[f].body)
                     /\ Count(last'.tr, f) = Remaining(frames[f])
    ]_vars

\* wait_all has driven two tasks, at least one through several steps
C4_Witness ==
    /\ last.op = "wait_all" /\ last.exc = "none" /\ ~aborted
    /\ Len(last.args) = 2
    /\ Len(last.tr) >= 3
    /\ \A i \in DOMAIN last.args : NonEmpty(last.args[i]) /\ FrameOf(last.args[i]).done

\* C5: when wait_any returns on non-empty tasks, no error was raised, some
\* task is done, every task still holds its live frame, and a task that is
\* not done is suspended at an internal suspension point of its body.
C5_WaitAnyPost ==
    [][\A args \in ArgLists :
        (last'.op = "wait_any" /\ last'.args = args /\ WaitAny(args)
           /\ AllNonEmpty(args) /\ ~aborted') =>
            /\ last'.exc = "none"
            /\ handle' = handle
            /\ \E i \in DOMAIN args : frames'[handle[args[i]]].done
            /\ \A i \in DOMAIN args :
                 LET F == frames'[handle[args[i]]]
                 IN  /\ F.st = "live"
                     /\ ~F.done => (F.pc >= 2 /\ F.pc <= Len(Body[F.body].segs))
    ]_vars

\* wait_any has returned with one task done and another still suspended
C5_Witness ==
    /\ last.op = "wait_any" /\ last.exc = "none" /\ ~aborted
    /\ Len(last.args) = 2
    /\ last.tr # << >>
    /\ \A i \in DOMAIN last.args : NonEmpty(last.args[i])
    /\ \E i, j \in DOMAIN last.args :
         FrameOf(last.args[i]).done /\ ~FrameOf(last.args[j]).done

\* C6: done(), resume() and wait() on an empty handle raise
\* bad_coroutine_access, step no frame and change nothing; wait_all and
\* wait_any given an empty task raise the same error.
C6_EmptyAccess ==
    [][/\ \A h \in Handles :
            (h \in DOMAIN handle /\ handle[h] = NULL /\ last'.h = h
               /\ (Done(h) \/ Resume(h) \/ Wait(h))) =>
                /\ last'.exc = "bad_coroutine_access"
                /\ last'.tr = << >>
                /\ UNCHANGED << handle, frames, nframes, val, aborted >>
       /\ \A args \in ArgLists :
            (~AllNonEmpty(args) /\ last'.args = args /\ ~aborted'
               /\ (WaitAll(args) \/ WaitAny(args))) =>
                /\ last'.exc = "bad_coroutine_access"
                /\ handle' = handle
    ]_vars

\* resume() has just raised empty-access on an empty handle
C6_Witness ==
    /\ last.op = "resume"
    /\ last.exc = "bad_coroutine_access"
    /\ handle[last.h] = NULL

\* wait_all / wait_any has just raised empty-access
C6_WitnessCombinator ==
    /\ last.op \in {"wait_all", "wait_any"}
    /\ last.exc = "bad_coroutine_access"
    /\ Len(last.args) = 2

\* C7: resume() on a non-empty task whose frame is done steps nothing and
\* leaves the handle, the frame (done flag, stored value or error) and the
\* external variable as they were.
C7_ResumeIdempotent ==
    [][\A h \in Handles :
        (last'.op = "resume" /\ last'.h = h /\ NonEmpty(h) /\ FrameOf(h).done
           /\ Resume(h)) =>
            /\ last'.exc = "none"
            /\ last'.tr = << >>
            /\ UNCHANGED << handle, frames, nframes, val, aborted >>
    ]_vars

\* resume() has been called twice in a row on a done task
C7_Witness ==
    /\ last.op = "resume" /\ last.prev = "none"
    /\ last.tr = << >>
    /\ NonEmpty(last.h)
    /\ FrameOf(last.h).done

\* C8: constructing an eager task whose body has no internal suspension
\* point runs the whole body: the frame is done, the body's write is in the
\* external variable and the promise holds the body's outcome.
C8_EagerDone ==
    [][\A h \in Handles, bn \in BodyNames :
        (last'.op = "task" /\ last'.h = h /\ Len(Body[bn].segs) = 1 /\ ~aborted'
           /\ Construct(h, FALSE, bn)) =>
            LET F == frames'[handle'[h]]
            IN  /\ F.st = "live" /\ F.done
                /\ last'.exc = "none"
                /\ last'.tr = << handle'[h] >>
                /\ Body[bn].segs[1].wr # None => val' = Body[bn].segs[1].wr[1]
                /\ Outcome(F) = Expected(bn)
    ]_vars

\* an eager value-returning task is done right after construction
C8_Witness ==
    /\ last.op = "task" /\ ~aborted
    /\ NonEmpty(last.h)
    /\ FrameOf(last.h).done
    /\ FrameOf(last.h).stat = [idx |-> 1, v |-> 13]

\* C9: constructing a lazy task runs nothing: the frame is not done, at its
\* initial suspension, the promise and the external variable untouched; the
\* first resume() of a body with no internal suspension point runs the
\* whole body and the frame is done.
C9_LazyNotStarted ==
    [][\A h \in Handles :
        /\ \A bn \in BodyNames :
            (last'.op = "lazy_task" /\ last'.h = h /\ Construct(h, TRUE, bn)) =>
                LET F == frames'[handle'[h]]
                IN  /\ F = NewFrame(bn)
                    /\ ~F.done
                    /\ last'.tr = << >>
                    /\ val' = val /\ aborted' = aborted
        /\ (last'.op = "resume" /\ last'.h = h /\ NonEmpty(h) /\ FrameOf(h).pc = 1
              /\ Len(Body[FrameOf(h).body].segs) = 1 /\ ~aborted' /\ Resume(h)) =>
                /\ frames'[handle[h]].done
                /\ last'.tr = << handle[h] >>
                /\ Outcome(frames'[handle[h]]) = Expected(FrameOf(h).body)
    ]_vars

\* a lazy task has just been constructed and nothing of it ran
C9_Witness ==
    /\ last.op = "lazy_task"
    /\ NonEmpty(last.h)
    /\ ~FrameOf(last.h).done
    /\ FrameOf(last.h).body = "set"
    /\ val = 0

\* the first resume() of a lazy task with no internal suspension point
C9_WitnessResume ==
    /\ last.op = "resume" /\ last.tr # << >>
    /\ NonEmpty(last.h)
    /\ FrameOf(last.h).done
    /\ Len(Body[FrameOf(last.h).body].segs) = 1

\* C10: when the body of a task throws e, the construction or resume() that
\* runs the throw returns normally with e stored in the promise; wait()
\* raises exactly e, destroys the frame and empties the handle; and only a
\* wait() that consumes a live frame ever re-raises.
C10_ErrorPropagation ==
    [][/\ \A h \in Handles, lazy \in BOOLEAN, bn \in BodyNames :
            (Body[bn].throws /\ last'.op \in {"task", "lazy_task"} /\ last'.h = h
               /\ Construct(h, lazy, bn)) =>
                /\ last'.exc = "none"
                /\ frames'[handle'[h]].done =>
                      frames'[handle'[h]].stat = [idx |-> 0, v |-> Body[bn].end[1]]
       /\ \A h \in Handles :
            (last'.op = "resume" /\ last'.h = h /\ NonEmpty(h)
               /\ Body[FrameOf(h).body].throws /\ Resume(h)) =>
                /\ last'.exc = "none"
                /\ frames'[handle[h]].done =>
                      frames'[handle[h]].stat = [idx |-> 0, v |-> Body[FrameOf(h).body].end[1]]
       /\ \A h \in Handles :
            (last'.op = "wait" /\ last'.h = h /\ NonEmpty(h)
               /\ Body[FrameOf(h).body].throws /\ ~aborted' /\ Wait(h)) =>
                /\ last'.exc = "rethrow"
                /\ last'.val = Body[FrameOf(h).body].end
                /\ handle'[h] = NULL
                /\ frames'[handle[h]].st = "destroyed"
       /\ last'.exc = "rethrow" =>
                /\ last'.op = "wait"
                /\ NonEmpty(last'.h)
                /\ frames[handle[last'.h]].st = "live"
                /\ Body[frames[handle[last'.h]].body].throws
                /\ frames'[handle[last'.h]].st = "destroyed"
                /\ handle'[last'.h] = NULL
    ]_vars

\* wait() has just re-raised the error a body threw after a suspension
C10_Witness ==
    /\ last.op = "wait" /\ last.exc = "rethrow"
    /\ last.val = Some(9)
    /\ Len(last.tr) = 2
    /\ handle[last.h] = NULL

(* ------------- the same two claims on the earlier revision ------------- *)
\* C6 on coutil.h: done(), resume() and wait() on an empty handle raise
\* bad_coroutine_access and change nothing.
C6_EmptyAccessV1 ==
    [][\A h \in Handles :
        (h \in DOMAIN handle /\ handle[h] = NULL /\ last'.h = h
           /\ (DoneV1(h) \/ ResumeV1(h) \/ WaitV1(h))) =>
            /\ last'.exc = "bad_coroutine_access"
            /\ last'.tr = << >>
            /\ UNCHANGED << handle, frames, nframes, val, aborted >>
    ]_vars

\* C7 on coutil.h: resume() on a done frame steps nothing.
C7_ResumeIdempotentV1 ==
    [][\A h \in Handles :
        (last'.op = "resume" /\ last'.h = h /\ NonEmpty(h) /\ FrameOf(h).done
           /\ ResumeV1(h)) =>
            /\ last'.exc = "none"
            /\ last'.tr = << >>
            /\ UNCHANGED << handle, frames, nframes, val, aborted >>
    ]_vars

(* ------------------------- moves of handles ---------------------------- *)
\* basic_task &operator=(basic_task &&other): co = std::exchange(other.co,
\* nullptr).  The frame the target held is not destroyed.
MoveAssign(h, o) ==
    /\ ~aborted
    /\ h \in DOMAIN handle /\ o \in DOMAIN handle
    /\ handle' = [x \in DOMAIN handle |->
                    IF x = h THEN handle[o] ELSE IF x = o THEN NULL ELSE handle[x]]
    /\ last' = [Last("move=", h, "none", None, FALSE, << >>) EXCEPT !.args = << o >>]
    /\ UNCHANGED << frames, nframes, val, aborted >>

\* iterator(iterator &&other)
ItMoveConstruct(i, o) ==
    /\ ~aborted
    /\ i \notin DOMAIN handle
    /\ o \in DOMAIN handle
    /\ handle' = [x \in DOMAIN handle \cup {i} |->
                    IF x = i THEN handle[o] ELSE IF x = o THEN NULL ELSE handle[x]]
    /\ last' = [Last("move", i, "none", None, FALSE, << >>) EXCEPT !.args = << o >>]
    /\ UNCHANGED << frames, nframes, val, aborted >>

\* iterator &operator=(iterator &&other)
ItMoveAssign(i, o) ==
    /\ ~aborted
    /\ i \in DOMAIN handle /\ o \in DOMAIN handle
    /\ handle' = [x \in DOMAIN handle |->
                    IF x = i THEN handle[o] ELSE IF x = o THEN NULL ELSE handle[x]]
    /\ last' = [Last("move=", i, "none", None, FALSE, << >>) EXCEPT !.args = << o >>]
    /\ UNCHANGED << frames, nframes, val, aborted >>

\* basic_generator &operator=(basic_generator &&other)
GenMoveAssign(g, o) ==
    /\ ~aborted
    /\ g \in DOMAIN handle /\ o \in DOMAIN handle
    /\ handle' = [x \in DOMAIN handle |->
                    IF x = g THEN handle[o] ELSE IF x = o THEN NULL ELSE handle[x]]
    /\ last' = [Last("move=", g, "none", None, FALSE, << >>) EXCEPT !.args = << o >>]
    /\ UNCHANGED << frames, nframes, val, aborted >>

\* tasks, a generator and its iterators, with the moves
NextOwn ==
    \/ \E h \in Handles, lazy \in BOOLEAN : Construct(h, lazy, "stepret")
    \/ \E h, o \in Handles : MoveConstruct(h, o)
    \/ \E h, o \in Handles : MoveAssign(h, o)
    \/ \E h \in Handles : Destruct(h)
    \/ \E h \in Handles : Resume(h)
    \/ \E h \in Handles : Wait(h)
    \/ \E g \in Gens : GenConstruct(g, "gen1stop")
    \/ \E g \in Gens : GenDestruct(g)
    \/ \E g \in Gens, i \in Iters : Begin(g, i)
    \/ \E i \in Iters : ItDestruct(i)
    \/ \E i \in Iters : Increment(i)
    \/ \E i, o \in Iters : ItMoveConstruct(i, o)
    \/ \E i, o \in Iters : ItMoveAssign(i, o)
    \/ \E g, o \in Gens : GenMoveAssign(g, o)

SpecOwn == Init /\ [][NextOwn]_vars

\* one task and one generator with its iterator, of every body, for the
\* result slot
NextSlot ==
    \/ \E lazy \in BOOLEAN, bn \in BodyNames : Construct("a", lazy, bn)
    \/ Destruct("a")
    \/ Resume("a")
    \/ Wait("a")
    \/ \E bn \in GenBodyNames : GenConstruct("g", bn)
    \/ GenDestruct("g")
    \/ Begin("g", "i")
    \/ ItDestruct("i")
    \/ Increment("i")

SpecSlot == Init /\ [][NextSlot]_vars

(* ------------------------- an awaited increment ------------------------ *)
\* the members pseudo_iterator declares under "await interface"
PseudoAwaitInterface == {"await_ready", "await_suspend", "await_result"}
\* the members a co_await expression calls on its operand
AwaitExpression == {"await_ready", "await_suspend", "await_resume"}

\* co_await ++i; in the body of a coroutine.  The expression needs the
\* three members of AwaitExpression on the pseudo_iterator: with one of
\* them missing the coroutine does not build, and there is no advance.
\* With all three, await_ready is done(), await_suspend does nothing and
\* the resumption goes through wait(), which ends the advance.
AwaitIncrement(i) ==
    /\ ~aborted
    /\ i \in DOMAIN handle
    /\ IF ~(AwaitExpression \subseteq PseudoAwaitInterface)
       THEN /\ Commit(Here, Last("co_await ++", i, "ill_formed", None, FALSE, << >>))
            /\ UNCHANGED handle
       ELSE IF handle[i] = NULL
       THEN /\ Commit(Here, Last("co_await ++", i, "invalid_argument", None, FALSE, << >>))
            /\ UNCHANGED handle
       ELSE /\ CanAdvance(handle[i])
            /\ LET f == handle[i]
                   R == Settle(Advance(Here, f), f)
               IN  /\ Commit(R.S, Last("co_await ++", i, "none", None, FALSE, R.S.tr))
                   /\ handle' = [handle EXCEPT ![i] = R.co]
    /\ UNCHANGED << nframes >>

NextAwaitIncrement ==
    \/ \E g \in Gens, bn \in GenBodyNames : GenConstruct(g, bn)
    \/ \E g \in Gens : GenDestruct(g)
    \/ \E g \in Gens, i \in Iters : Begin(g, i)
    \/ \E i \in Iters : ItDestruct(i)
    \/ \E i \in Iters : Increment(i)
    \/ \E i \in Iters : AwaitIncrement(i)

SpecAwaitIncrement == Init /\ [][NextAwaitIncrement]_vars

(* ---------------------- a task that awaits a task ---------------------- *)
(* lazy_task<int> foo() { val = 50; int v = co_await q(); val = 90;        *)
(* co_return v; } and its eager twin.  The awaited task is a temporary of  *)
(* the awaiting frame: the frame holds its co (child).  For a void q the   *)
(* awaiter returns 1.                                                      *)
Awaiters == {"p"}

\* the tasks awaited, eager and lazy: task<int> async_add, a task that
\* suspends once, a task that throws, a void task, a void task that
\* suspends and then throws
AwaitKinds ==
    {[lazy |-> FALSE, body |-> "add"], [lazy |-> TRUE, body |-> "add"],
     [lazy |-> FALSE, body |-> "stepret"], [lazy |-> TRUE, body |-> "stepret"],
     [lazy |-> FALSE, body |-> "throwi"], [lazy |-> TRUE, body |-> "throwi"],
     [lazy |-> FALSE, body |-> "set"], [lazy |-> TRUE, body |-> "stepthrow"],
     [lazy |-> FALSE, body |-> "steps"], [lazy |-> TRUE, body |-> "steps"]}

NewAwaiter(q) == [st |-> "live", body |-> "foo", pc |-> 1, done |-> FALSE,
                  stat |-> [idx |-> 0, v |-> 0], q |-> q, child |-> NULL]

\* an await_resume that gives the awaited frame one resume() in place of
\* wait()
AwaitResumeOneStep(S, f) ==
    LET fq == S.fr[f].child
        S1 == IF S.fr[fq].done THEN S ELSE StepFrame(S, fq)
        o  == Outcome(S1.fr[fq])
        S2 == DestroyFrame(S1, fq)
    IN  IF S1.ab THEN S1
        ELSE [S2 EXCEPT !.val = 90,
                        !.fr[f] = [@ EXCEPT !.pc = 3, !.done = TRUE, !.child = NULL,
                                           !.stat = [idx |-> 1, v |-> IF o.val = None THEN 1 ELSE o.val[1]]]]

\* await_resume() { return wait(); } in the awaiting frame f, and the rest
\* of the body: wait() runs the awaited frame to its end, the sentry
\* destroys it and nulls co; the value goes on to co_return, the error is
\* raised in the body and ends in unhandled_exception.
AwaitResume(S, f) ==
    LET fq == S.fr[f].child
        S1 == RunToDone(S, fq)
        o  == Outcome(S1.fr[fq])
        S2 == DestroyFrame(S1, fq)
    IN  IF S1.ab THEN S1
        ELSE IF o.exc = "rethrow"
        THEN [S2 EXCEPT !.fr[f] = [@ EXCEPT !.pc = 3, !.done = TRUE, !.child = NULL,
                                              !.stat = [idx |-> 0, v |-> o.val[1]]]]
        ELSE [S2 EXCEPT !.val = 90,
                        !.fr[f] = [@ EXCEPT !.pc = 3, !.done = TRUE, !.child = NULL,
                                           !.stat = [idx |-> 1, v |-> IF o.val = None THEN 1 ELSE o.val[1]]]]

\* an awaiter that goes on to await_resume whatever await_ready says
StepAwaiterBlocks(S, f, fq) ==
    LET F == S.fr[f]
    IN  IF S.ab THEN S
        ELSE IF F.pc = 1
        THEN LET S1 == [S EXCEPT !.val = 50, !.tr = Append(@, f),
                                 !.fr[fq] = NewFrame(F.q.body)]
                 S2 == IF F.q.lazy THEN S1 ELSE StepFrame(S1, fq)
             IN  AwaitResume([S2 EXCEPT !.fr[f].child = fq], f)
        ELSE AwaitResume([S EXCEPT !.tr = Append(@, f)], f)

\* co.resume() on the awaiting frame f; fq is the frame the awaited task
\* gets.  From the start: the body up to the co_await, where the awaited
\* task is built (and, eager, started); await_ready() is its done(): when
\* true the body goes straight on to await_resume, when false
\* await_suspend does nothing and the frame stays suspended.  From the
\* co_await: await_resume.
StepAwaiter(S, f, fq) ==
    LET F == S.fr[f]
    IN  IF S.ab THEN S
        ELSE IF F.pc = 1
        THEN LET S1 == [S EXCEPT !.val = 50, !.tr = Append(@, f),
                                 !.fr[fq] = NewFrame(F.q.body)]
                 S2 == IF F.q.lazy THEN S1 ELSE StepFrame(S1, fq)
             IN  IF S2.ab THEN S2
                 ELSE IF S2.fr[fq].done
                 THEN AwaitResume([S2 EXCEPT !.fr[f].child = fq], f)
                 ELSE [S2 EXCEPT !.fr[f] = [F EXCEPT !.pc = 2, !.child = fq]]
        ELSE AwaitResume([S EXCEPT !.tr = Append(@, f)], f)

\* while (!co.done()) co.resume(); on the awaiting frame
RECURSIVE RunAwaiter(_, _, _)
RunAwaiter(S, f, fq) ==
    IF S.ab \/ S.fr[f].done THEN S ELSE RunAwaiter(StepAwaiter(S, f, fq), f, fq)

\* the frames a call on the awaiter may have to allocate: the awaited
\* task's, when the body has not reached the co_await
Needs(F) == IF ~F.done /\ F.pc = 1 THEN 1 ELSE 0

\* lazy_task<int> p = foo() / task<int> p = foo()
AwConstruct(h, lazy, q) ==
    /\ ~aborted
    /\ h \notin DOMAIN handle
    /\ nframes + (IF lazy THEN 1 ELSE 2) <= MaxFrames
    /\ LET f  == nframes + 1
           S0 == [Here EXCEPT !.fr[f] = NewAwaiter(q)]
           S1 == IF lazy THEN S0 ELSE StepAwaiter(S0, f, f + 1)
       IN  /\ Commit(S1, Last(IF lazy THEN "lazy_task" ELSE "task", h, "none", None, FALSE, S1.tr))
           /\ handle' = [x \in DOMAIN handle \cup {h} |-> IF x = h THEN f ELSE handle[x]]
           /\ nframes' = IF lazy THEN f ELSE f + 1

\* ~basic_task() of the awaiter: destroying its frame destroys the awaited
\* task it holds, and that one its frame
AwDestruct(h) ==
    /\ ~aborted
    /\ h \in DOMAIN handle
    /\ LET f  == handle[h]
           S1 == IF f # NULL /\ frames[f].child # NULL
                 THEN DestroyFrame(Here, frames[f].child) ELSE Here
           S2 == IF f # NULL THEN DestroyFrame(S1, f) ELSE S1
       IN  Commit(S2, Last("destruct", h, "none", None, FALSE, << >>))
    /\ handle' = [x \in DOMAIN handle \ {h} |-> handle[x]]
    /\ UNCHANGED << nframes >>

\* resume() of the awaiter
AwResume(h) ==
    /\ ~aborted
    /\ h \in DOMAIN handle
    /\ IF Empty(h)
       THEN /\ Commit(Here, Last("resume", h, "bad_coroutine_access", None, FALSE, << >>))
            /\ UNCHANGED nframes
       ELSE LET f == handle[h]
                n == Needs(frames[f])
            IN  /\ nframes + n <= MaxFrames
                /\ LET S == IF frames[f].done THEN Here ELSE StepAwaiter(Here, f, nframes + 1)
                   IN  Commit(S, Last("resume", h, "none", None, FALSE, S.tr))
                /\ nframes' = nframes + n
    /\ UNCHANGED << handle >>

\* wait() of the awaiter
AwWait(h) ==
    /\ ~aborted
    /\ h \in DOMAIN handle
    /\ IF Empty(h)
       THEN /\ Commit(Here, Last("wait", h, "bad_coroutine_access", None, FALSE, << >>))
            /\ UNCHANGED << handle, nframes >>
       ELSE LET f == handle[h]
                n == Needs(frames[f])
            IN  /\ nframes + n <= MaxFrames
                /\ LET S == RunAwaiter(Here, f, nframes + 1)
                       F == S.fr[f]
                   IN  Commit(DestroyFrame(S, f),
                              Last("wait", h, IF F.stat.idx = 1 THEN "none" ELSE "rethrow",
                                   Some(F.stat.v), FALSE, S.tr))
                /\ handle' = [handle EXCEPT ![h] = NULL]
                /\ nframes' = nframes + n

NextAwait ==
    \/ \E h \in Awaiters, lazy \in BOOLEAN, q \in AwaitKinds : AwConstruct(h, lazy, q)
    \/ \E h \in Awaiters : AwDestruct(h)
    \/ \E h \in Awaiters : Done(h)
    \/ \E h \in Awaiters : AwResume(h)
    \/ \E h \in Awaiters : AwWait(h)

SpecAwait == Init /\ [][NextAwait]_vars

(* ------------------------- generator claims ---------------------------- *)
\* a body that yields finitely many elements and then returns
Finite(bn) ==
    /\ ~GenBody[bn].loop
    /\ \A k \in DOMAIN GenBody[bn].segs : GenBody[bn].segs[k].how # "throw"
\* the elements a body yields up to (not including) segment n, in order
RECURSIVE YieldsUpTo(_, _)
YieldsUpTo(bn, n) ==
    IF n <= 1 THEN << >>
    ELSE LET seg == GenBody[bn].segs[n - 1]
         IN  IF seg.how = "yield" /\ seg.v # None
             THEN Append(YieldsUpTo(bn, n - 1), seg.v[1])
             ELSE YieldsUpTo(bn, n - 1)
Yields(bn) == YieldsUpTo(bn, Len(GenBody[bn].segs) + 1)
\* how many elements a frame has yielded so far
Yielded(F) == Len(YieldsUpTo(F.body, F.pc))

\* C11: for a generator that yields the finite sequence s and returns:
\* begin() gives the end iterator when s is empty, and otherwise a live
\* iterator on s[1]; an increment of a live iterator on s[m] leaves it live
\* on s[m+1] when m < Len(s) and in the end state when m = Len(s);
\* dereferencing a live iterator on s[m] returns s[m]; and comparing with
\* an end iterator tells whether the iterator is in the end state.
C11_RoundTrip ==
    [][\A i \in Iters :
        /\ \A g \in Gens :
            (last'.op = "begin" /\ last'.h = i /\ NonEmpty(g)
               /\ Finite(FrameOf(g).body) /\ Begin(g, i)) =>
                LET sq == Yields(FrameOf(g).body)
                    f  == handle[g]
                IN  IF sq = << >>
                    THEN handle'[i] = NULL /\ frames'[f].st = "destroyed"
                    ELSE /\ handle'[i] = f
                         /\ frames'[f].stat = [idx |-> 1, v |-> sq[1]]
                         /\ Yielded(frames'[f]) = 1
        /\ (last'.op = "++" /\ last'.h = i /\ NonEmpty(i)
              /\ Finite(FrameOf(i).body) /\ Increment(i)) =>
                LET sq == Yields(FrameOf(i).body)
                    f  == handle[i]
                    m  == Yielded(FrameOf(i))
                IN  /\ last'.exc = "none"
                    /\ IF m < Len(sq)
                       THEN /\ handle'[i] = f
                            /\ frames'[f].stat = [idx |-> 1, v |-> sq[m + 1]]
                            /\ Yielded(frames'[f]) = m + 1
                       ELSE handle'[i] = NULL /\ frames'[f].st = "destroyed"
        /\ (last'.op = "*" /\ last'.h = i /\ NonEmpty(i)
              /\ Finite(FrameOf(i).body) /\ Deref(i)) =>
                /\ last'.exc = "none"
                /\ last'.val = Some(Yields(FrameOf(i).body)[Yielded(FrameOf(i))])
        /\ \A j \in Iters :
            (last'.op = "==" /\ last'.args = << i, j >> /\ j \in DOMAIN handle
               /\ handle[j] = NULL /\ Equal(i, j)) =>
                last'.bool = (handle[i] = NULL)
    ]_vars

\* the iterator of gen123 has been incremented twice and dereferenced: 3
C11_Witness ==
    /\ last.op = "*" /\ last.exc = "none"
    /\ NonEmpty(last.h)
    /\ FrameOf(last.h).body = "gen123"
    /\ Yielded(FrameOf(last.h)) = 3
    /\ last.val = Some(3)

\* an iterator that has just run off the end compares equal to end()
C11_WitnessEnd ==
    /\ last.op = "==" /\ last.bool
    /\ last.args = << "i", "j" >>
    /\ frames[1].st = "destroyed"
    /\ "g" \in DOMAIN handle


\* the segment at which an advance from segment pc stops: the first that
\* does not end in a suspension without a yield
RECURSIVE NextStop(_, _)
NextStop(bn, pc) ==
    IF GenBody[bn].segs[pc].how = "suspend" THEN NextStop(bn, pc + 1)
    ELSE GenBody[bn].segs[pc]
\* the body of the frame throws during the next advance
AdvanceThrows(F) == NextStop(F.body, F.pc).how = "throw"

\* C12: when the body of a generator throws e during an advance (in begin()
\* or in an increment), dereferencing the iterator after that advance
\* raises exactly e.
C12_DerefRaises ==
    [][\A i \in Iters :
        /\ \A g \in Gens :
            (last'.op = "begin" /\ last'.h = i /\ NonEmpty(g)
               /\ AdvanceThrows(FrameOf(g)) /\ Begin(g, i)) =>
                \A o \in DerefOutcomes(handle'[i], frames') :
                    /\ o.exc = "rethrow"
                    /\ o.val = NextStop(FrameOf(g).body, FrameOf(g).pc).v
        /\ (last'.op = "++" /\ last'.h = i /\ NonEmpty(i)
              /\ AdvanceThrows(FrameOf(i)) /\ Increment(i)) =>
                \A o \in DerefOutcomes(handle'[i], frames') :
                    /\ o.exc = "rethrow"
                    /\ o.val = NextStop(FrameOf(i).body, FrameOf(i).pc).v
    ]_vars

\* What holds instead: an advance in which the body throws leaves the
\* iterator in the end state with the frame, and the error in it,
\* destroyed; and no dereference ever raises a stored error.
C12_ErrorLost ==
    [][/\ \A i \in Iters :
            (last'.op = "++" /\ last'.h = i /\ NonEmpty(i)
               /\ AdvanceThrows(FrameOf(i)) /\ Increment(i)) =>
                /\ last'.exc = "none"
                /\ handle'[i] = NULL
                /\ frames'[handle[i]].st = "destroyed"
       /\ last'.op = "*" => last'.exc # "rethrow"
    ]_vars

\* an increment has run a throw of the body and left the end iterator
C12_WitnessErrorLost ==
    /\ last.op = "++" /\ last.exc = "none"
    /\ handle[last.h] = NULL
    /\ Len(last.tr) = 1
    /\ val = 31


\* C13: begin() on a non-empty generator runs the first advance, leaves the
\* generator empty and the frame with the new iterator (or destroyed, when
\* the advance ended the sequence); begin() on an empty generator gives an
\* end iterator and touches no frame and no other handle, so an earlier
\* iterator keeps its frame and its place; end() gives an end iterator and
\* leaves the generator and every frame as they were.
C13_BeginSingleUse ==
    [][\A g \in Gens, i \in Iters :
        /\ (last'.op = "begin" /\ last'.h = i /\ NonEmpty(g) /\ Begin(g, i)) =>
              /\ handle'[g] = NULL
              /\ last'.tr # << >>
              /\ \/ handle'[i] = handle[g] /\ frames'[handle[g]].st = "live"
                 \/ handle'[i] = NULL /\ frames'[handle[g]].st = "destroyed"
              /\ \A x \in DOMAIN handle \ {g} : handle'[x] = handle[x]
        /\ (last'.op = "begin" /\ last'.h = i /\ g \in DOMAIN handle
              /\ handle[g] = NULL /\ Begin(g, i)) =>
              /\ handle'[i] = NULL
              /\ last'.tr = << >>
              /\ \A x \in DOMAIN handle : handle'[x] = handle[x]
              /\ UNCHANGED << frames, nframes, val, aborted >>
        /\ (last'.op = "end" /\ last'.h = i /\ End(g, i)) =>
              /\ handle'[i] = NULL
              /\ \A x \in DOMAIN handle : handle'[x] = handle[x]
              /\ UNCHANGED << frames, nframes, val, aborted >>
    ]_vars

\* a second begin() has given an end iterator while the iterator of the
\* first begin() still holds the frame, with elements to come
C13_Witness ==
    /\ last.op = "begin" /\ last.tr = << >>
    /\ handle[last.h] = NULL
    /\ handle[last.args[1]] = NULL
    /\ \E j \in Iters \ {last.h} :
         /\ NonEmpty(j)
         /\ FrameOf(j).body = "gen123"
         /\ Yielded(FrameOf(j)) = 1


\* C14: incrementing an iterator in the end state (from end(), from
\* begin() on an empty generator, or run past the last element) raises
\* invalid_argument, steps no frame and changes nothing: the iterator is
\* still in the end state, and a comparison with an end iterator says so.
C14_InvalidIncrement ==
    [][\A i \in Iters :
        /\ (last'.op = "++" /\ last'.h = i /\ i \in DOMAIN handle
              /\ handle[i] = NULL /\ Increment(i)) =>
              /\ last'.exc = "invalid_argument"
              /\ last'.tr = << >>
              /\ handle'[i] = NULL
              /\ UNCHANGED << handle, frames, nframes, val, aborted >>
        /\ \A j \in Iters :
            (last.op = "++" /\ last.h = i /\ last.exc = "invalid_argument"
               /\ last'.op = "==" /\ last'.args = << i, j >> /\ j \in DOMAIN handle
               /\ handle[j] = NULL /\ Equal(i, j)) =>
                last'.bool = TRUE
        /\ (last'.op = "++" /\ last'.h = i /\ last'.exc = "invalid_argument") =>
              handle[i] = NULL
    ]_vars

\* an iterator that an increment took past the last element has been
\* incremented again and raised
C14_Witness ==
    /\ last.op = "++" /\ last.prev = "none"
    /\ last.exc = "invalid_argument"
    /\ handle[last.h] = NULL

\* an iterator from end() has been incremented and raised, the only frame
\* still with its generator
C14_WitnessEnd ==
    /\ last.op = "++" /\ last.prev = "-"
    /\ last.exc = "invalid_argument"
    /\ nframes = 1 /\ NonEmpty("g")


\* C15: for the generator that yields 0, 1, 2, ... without end: begin()
\* leaves a live iterator on 0; an increment of the live iterator on k
\* resumes the body once, leaves the iterator live on k + 1 and the loop
\* variable at k + 2; dereferencing the iterator on k returns k; and the
\* live iterator does not compare equal to an end iterator.
C15_Iota ==
    [][\A i \in Iters :
        /\ \A g \in Gens :
            (last'.op = "begin" /\ last'.h = i /\ NonEmpty(g)
               /\ GenBody[FrameOf(g).body].loop /\ Begin(g, i)) =>
                LET F == frames'[handle[g]]
                IN  /\ handle'[i] = handle[g]
                    /\ F.st = "live" /\ ~F.done
                    /\ F.stat = [idx |-> 1, v |-> 0]
                    /\ F.i = 1
                    /\ last'.tr = << handle[g] >>
        /\ (last'.op = "++" /\ last'.h = i /\ NonEmpty(i)
              /\ GenBody[FrameOf(i).body].loop /\ Increment(i)) =>
                LET F == frames'[handle[i]]
                    k == FrameOf(i).stat.v
                IN  /\ last'.exc = "none"
                    /\ handle'[i] = handle[i]
                    /\ F.st = "live" /\ ~F.done
                    /\ F.stat = [idx |-> 1, v |-> k + 1]
                    /\ F.i = k + 2
                    /\ last'.tr = << handle[i] >>
        /\ (last'.op = "*" /\ last'.h = i /\ NonEmpty(i)
              /\ GenBody[FrameOf(i).body].loop /\ Deref(i)) =>
                /\ last'.exc = "none"
                /\ last'.val = Some(FrameOf(i).i - 1)
        /\ \A j \in Iters :
            (last'.op = "==" /\ last'.args = << i, j >> /\ NonEmpty(i)
               /\ j \in DOMAIN handle /\ Equal(i, j)) =>
                last'.bool = FALSE
    ]_vars

\* the iterator of my_iota has been incremented up to the cut of the loop
\* and dereferenced
C15_Witness ==
    /\ last.op = "*" /\ last.exc = "none"
    /\ NonEmpty(last.h)
    /\ FrameOf(last.h).body = "iota"
    /\ FrameOf(last.h).i = MaxIota
    /\ last.val = Some(MaxIota - 1)


\* the handles that hold frame f
Owners(f) == { h \in DOMAIN handle : handle[h] = f }

\* C16: every frame that has been allocated and not destroyed is held by
\* exactly one handle.
C16_SingleOwner ==
    \A f \in 1..nframes :
        frames[f].st = "live" => Cardinality(Owners(f)) = 1

\* What holds instead: no frame is ever held by two handles, a handle never
\* holds a destroyed frame, and a handle moved from is empty; a frame
\* loses its only owner in a move assignment onto it and in no other call.
C16_NeverShared ==
    \A f \in 1..nframes :
        /\ Cardinality(Owners(f)) <= 1
        /\ frames[f].st = "destroyed" => Owners(f) = {}

C16_MovedFromEmpty ==
    [][/\ \A h, o \in Handles \cup Iters :
            (last'.op \in {"move", "move="} /\ last'.h = h /\ h # o
               /\ (MoveConstruct(h, o) \/ MoveAssign(h, o)
                     \/ ItMoveConstruct(h, o) \/ ItMoveAssign(h, o))) =>
                /\ handle'[o] = NULL
                /\ handle'[h] = handle[o]
       /\ \A f \in 1..nframes :
            (frames[f].st = "live" /\ Owners(f) # {}
               /\ frames'[f].st = "live" /\ Owners(f)' = {}) =>
                /\ last'.op = "move="
                /\ handle[last'.h] = f
    ]_vars

\* a move assignment has left a live frame that no handle holds
C16_WitnessLeak ==
    /\ last.op = "move="
    /\ \E f \in 1..nframes : frames[f].st = "live" /\ Owners(f) = {}


\* the result slot of a promise: nothing yet (index 0 with a null
\* exception_ptr; the void promise's null ex), a value, or an error
SlotState(F) ==
    IF F.stat.idx = 1 THEN "value"
    ELSE IF F.stat.v # 0 THEN "error"
    ELSE "pending"
IsGenFrame(F) == "yield_flag" \in DOMAIN F

\* the slot of a live frame never goes back to nothing-yet
SlotKeeps ==
    \A f \in 1..MaxFrames :
        (frames[f].st = "live" /\ frames'[f].st = "live"
           /\ SlotState(frames[f]) # "pending") =>
            SlotState(frames'[f]) # "pending"

\* a task frame at final_suspend holds the outcome of its body: the error
\* when the body threw, else the value, or nothing for a void task
TaskSlotAtEnd ==
    \A f \in 1..MaxFrames :
        (frames'[f].st = "live" /\ ~IsGenFrame(frames'[f]) /\ frames'[f].done) =>
            LET b == Body[frames'[f].body]
            IN  SlotState(frames'[f]) =
                    IF b.throws THEN "error" ELSE IF b.void THEN "pending" ELSE "value"

\* C17 as stated: the slot never goes back to nothing-yet; a task at
\* final_suspend holds its value (a void task: nothing) or its error; and a
\* generator at final_suspend, before the advance that took it there
\* destroys the frame, holds a value or an error.
C17_SlotValueOrError ==
    [][/\ SlotKeeps
       /\ TaskSlotAtEnd
       /\ \A i \in Iters :
            (last'.op \in {"begin", "++"} /\ last'.h = i /\ last'.tr # << >>) =>
                LET f == last'.tr[1]
                    A == Advance(Here, f)
                IN  A.fr[f].done => SlotState(A.fr[f]) \in {"value", "error"}
    ]_vars

\* C17, amended: the slot never goes back to nothing-yet; a task at
\* final_suspend holds its value (a void task: nothing) or its error; and a
\* generator at final_suspend holds the error when its body threw, and
\* otherwise what the slot held before: the last element yielded, or
\* nothing when the body yielded no element.
C17_SlotAtCompletion ==
    [][/\ SlotKeeps
       /\ TaskSlotAtEnd
       /\ \A i \in Iters :
            (last'.op \in {"begin", "++"} /\ last'.h = i /\ last'.tr # << >>) =>
                LET f == last'.tr[1]
                    A == Advance(Here, f)
                IN  A.fr[f].done =>
                      /\ SlotState(A.fr[f]) =
                            IF AdvanceThrows(frames[f]) THEN "error"
                            ELSE IF Yielded(frames[f]) > 0 THEN "value" ELSE "pending"
                      /\ ~AdvanceThrows(frames[f]) => A.fr[f].stat = frames[f].stat
    ]_vars

\* begin() has just run a generator that yields nothing to its end
C17_Witness ==
    /\ last.op = "begin" /\ last.tr = << 1 >>
    /\ nframes = 1
    /\ handle[last.h] = NULL
    /\ frames[1].st = "destroyed"
    /\ val = 0


\* the resumes an advance from segment pc takes: one for each suspension
\* without a yield on the way, and one for the segment it stops at
RECURSIVE StepsToStop(_, _)
StepsToStop(bn, pc) ==
    IF GenBody[bn].segs[pc].how = "suspend" THEN 1 + StepsToStop(bn, pc + 1) ELSE 1

\* an advance of frame f, begun in this state, is complete in the next:
\* it resumed the body up to the first yield, throw or end, through every
\* suspension that yields nothing; after a yield iterator i holds the frame
\* with the flag up and the element yielded in this advance, after an end
\* or a throw iterator i is in the end state and the frame is destroyed
AdvanceComplete(i, f) ==
    LET F    == frames[f]
        stop == NextStop(F.body, F.pc)
    IN  /\ last'.exc = "none"
        /\ last'.tr = [k \in 1..StepsToStop(F.body, F.pc) |-> f]
        /\ IF stop.how = "yield"
           THEN /\ handle'[i] = f
                /\ frames'[f].st = "live" /\ ~frames'[f].done
                /\ frames'[f].yield_flag
                /\ frames'[f].stat = [idx |-> 1, v |-> IF stop.v # None THEN stop.v[1] ELSE F.i]
           ELSE /\ handle'[i] = NULL
                /\ frames'[f].st = "destroyed"

\* C19: an increment whose pseudo_iterator is dropped, and the advance of
\* begin(), are complete when the expression ends.
C19_SyncIncrement ==
    [][\A i \in Iters :
        /\ (last'.op = "++" /\ last'.h = i /\ NonEmpty(i) /\ Increment(i)) =>
              AdvanceComplete(i, handle[i])
        /\ \A g \in Gens :
            (last'.op = "begin" /\ last'.h = i /\ NonEmpty(g) /\ Begin(g, i)) =>
              AdvanceComplete(i, handle[g])
    ]_vars

\* an increment has gone through a suspension that yields nothing and on
\* to the end of the body
C19_Witness ==
    /\ last.op = "++" /\ last.exc = "none"
    /\ Len(last.tr) = 2
    /\ handle[last.h] = NULL
    /\ frames[last.tr[1]].st = "destroyed"
    /\ val = 42

\* begin() has gone through a suspension that yields nothing and stopped
\* at the yield after it
C19_WitnessYield ==
    /\ last.op = "begin"
    /\ Len(last.tr) = 2
    /\ NonEmpty(last.h)
    /\ FrameOf(last.h).yield_flag
    /\ FrameOf(last.h).stat = [idx |-> 1, v |-> 5]

\* C20: constructing a generator resumes nothing: the frame is at its
\* initial suspension with nothing in the slot and the flag down, and the
\* external variable is as it was; a frame stays so for as long as a
\* generator holds it; begin() on it is one advance from the start of the
\* body; and destroying the generator destroys the frame with no step of
\* the body run.
C20_GeneratorLazy ==
    [][\A g \in Gens :
        /\ \A bn \in GenBodyNames :
            (last'.op = "generator" /\ last'.h = g /\ GenConstruct(g, bn)) =>
                /\ frames'[handle'[g]] = NewGenFrame(bn)
                /\ SlotState(frames'[handle'[g]]) = "pending"
                /\ last'.tr = << >>
                /\ val' = val /\ aborted' = aborted
        /\ (g \in DOMAIN handle' /\ handle'[g] # NULL) =>
                frames'[handle'[g]] = NewGenFrame(frames'[handle'[g]].body)
        /\ \A i \in Iters :
            (last'.op = "begin" /\ last'.h = i /\ NonEmpty(g) /\ Begin(g, i)) =>
                /\ FrameOf(g).pc = 1
                /\ last'.tr = [k \in 1..StepsToStop(FrameOf(g).body, 1) |-> handle[g]]
        /\ (last'.op = "destruct" /\ last'.h = g /\ NonEmpty(g) /\ GenDestruct(g)) =>
                /\ FrameOf(g) = NewGenFrame(FrameOf(g).body)
                /\ frames'[handle[g]].st = "destroyed"
                /\ last'.tr = << >>
                /\ val' = val
    ]_vars

\* a generator whose body starts with a write has been constructed, and
\* the write has not happened
C20_Witness ==
    /\ last.op = "generator"
    /\ NonEmpty(last.h)
    /\ FrameOf(last.h).body = "gsteps"
    /\ FrameOf(last.h).pc = 1
    /\ val = 0

\* C22: an advance (of begin() or of an increment) in which the body
\* throws returns normally and leaves the iterator in the end state, the
\* frame destroyed, whether or not the body had yielded before; the
\* iterator then compares equal to an end iterator, and an increment of it
\* raises invalid_argument.
C22_ErrorEndsSequence ==
    [][\A i \in Iters :
        /\ \A g \in Gens :
            (last'.op = "begin" /\ last'.h = i /\ NonEmpty(g)
               /\ AdvanceThrows(FrameOf(g)) /\ Begin(g, i)) =>
                /\ last'.exc = "none"
                /\ handle'[i] = NULL
                /\ frames'[handle[g]].st = "destroyed"
        /\ (last'.op = "++" /\ last'.h = i /\ NonEmpty(i)
              /\ AdvanceThrows(FrameOf(i)) /\ Increment(i)) =>
                /\ last'.exc = "none"
                /\ Yielded(FrameOf(i)) > 0
                /\ handle'[i] = NULL
                /\ frames'[handle[i]].st = "destroyed"
        /\ (last.op \in {"begin", "++"} /\ last.h = i /\ last.tr # << >>
              /\ i \in DOMAIN handle /\ handle[i] = NULL) =>
                /\ \A j \in Iters :
                     (last'.op = "==" /\ last'.args = << i, j >> /\ j \in DOMAIN handle
                        /\ handle[j] = NULL /\ Equal(i, j)) => last'.bool = TRUE
                /\ (last'.op = "++" /\ last'.h = i /\ Increment(i)) =>
                     /\ last'.exc = "invalid_argument"
                     /\ last'.tr = << >>
                     /\ UNCHANGED << handle, frames, nframes, val, aborted >>
    ]_vars

\* the body threw after its first yield, in an increment, and the
\* increment after that one has raised invalid_argument
C22_Witness ==
    /\ last.op = "++" /\ last.prev = "none"
    /\ last.exc = "invalid_argument"
    /\ handle[last.h] = NULL
    /\ nframes = 1 /\ frames[1].st = "destroyed"
    /\ val = 31

\* begin() has run a body that throws before any yield, and left the end
\* iterator
C22_WitnessBegin ==
    /\ last.op = "begin" /\ last.tr = << 1 >>
    /\ handle[last.h] = NULL
    /\ nframes = 1 /\ frames[1].st = "destroyed"
    /\ val = 33

\* C25: co_await ++i on an iterator that is not at the end completes the
\* advance, once: when the awaiting body goes on, the iterator holds the
\* next element or is the end iterator, and the generator has been
\* stepped up to its next stop and no further.
C25_AwaitedIncrement ==
    [][\A i \in Iters :
        (last'.op = "co_await ++" /\ last'.h = i /\ NonEmpty(i) /\ AwaitIncrement(i)) =>
            AdvanceComplete(i, handle[i])
    ]_vars

\* What the code gives: the co_await of an increment is rejected and the
\* iterator and its generator stay as they were; the advance is made by
\* the statement ++i alone (C19).
C25_AwaitRejected ==
    [][\A i \in Iters :
        (last'.op = "co_await ++" /\ last'.h = i /\ AwaitIncrement(i)) =>
            /\ last'.exc = "ill_formed" /\ last'.tr = << >>
            /\ UNCHANGED << handle, frames, nframes, val, aborted >>
    ]_vars

\* an increment was awaited on an iterator that holds an element
C25_WitnessRejected ==
    /\ last.op = "co_await ++" /\ last.exc = "ill_formed"
    /\ NonEmpty(last.h) /\ FrameOf(last.h).yield_flag

(* --------------------------- awaiting claims --------------------------- *)
\* the awaited task is done as soon as it is built
DoneAtOnce(q) == ~q.lazy /\ Len(Body[q.body].segs) = 1
\* what the awaiter's promise holds once the awaited task q gave its result
AwaiterSlot(q) ==
    IF Body[q.body].throws THEN [idx |-> 0, v |-> Body[q.body].end[1]]
    ELSE IF Body[q.body].void THEN [idx |-> 1, v |-> 1]
    ELSE [idx |-> 1, v |-> Body[q.body].end[1]]
\* the awaiter is through its co_await: the awaited frame is destroyed and
\* its handle empty, the awaiter holds the value or the error of the
\* awaited task, and the statement after the co_await ran only for a value
Through(f, fq, q) ==
    /\ frames'[fq].st = "destroyed"
    /\ frames'[f].child = NULL
    /\ frames'[f].done
    /\ frames'[f].stat = AwaiterSlot(q)
    /\ (val' = 90) = ~Body[q.body].throws

\* C18: a resume() that takes the awaiter to its co_await builds the
\* awaited task; when that task is done at once, the awaiter goes through
\* the co_await in the same resume; otherwise the resume() returns with
\* the awaiter suspended, the awaited task alive and not done, and no
\* statement after the co_await run.  The resume() of the awaiter suspended
\* at the co_await runs every remaining step of the awaited task and takes
\* the awaiter through.  wait() on the awaiter returns the awaited value or
\* raises the awaited error.
C18_AwaitTask ==
    [][\A h \in Awaiters :
        /\ (last'.op = "resume" /\ last'.h = h /\ NonEmpty(h) /\ ~FrameOf(h).done
              /\ FrameOf(h).pc = 1 /\ AwResume(h)) =>
                LET f  == handle[h]
                    fq == nframes + 1
                    q  == frames[f].q
                IN  /\ last'.exc = "none"
                    /\ last'.tr[1] = f
                    /\ IF DoneAtOnce(q)
                       THEN Through(f, fq, q)
                       ELSE /\ frames'[f].pc = 2 /\ ~frames'[f].done
                            /\ frames'[f].stat = frames[f].stat
                            /\ frames'[f].child = fq
                            /\ frames'[fq].st = "live" /\ ~frames'[fq].done
                            /\ val' # 90
                            /\ Count(last'.tr, f) = 1
        /\ (last'.op = "resume" /\ last'.h = h /\ NonEmpty(h) /\ ~FrameOf(h).done
              /\ FrameOf(h).pc = 2 /\ AwResume(h)) =>
                LET f  == handle[h]
                    fq == frames[f].child
                IN  /\ last'.exc = "none"
                    /\ last'.tr[1] = f
                    /\ Count(last'.tr, f) = 1
                    /\ Count(last'.tr, fq) = Remaining(frames[fq])
                    /\ Through(f, fq, frames[f].q)
        /\ (last'.op = "wait" /\ last'.h = h /\ NonEmpty(h) /\ AwWait(h)) =>
                LET q == frames[handle[h]].q
                IN  /\ last'.exc = IF Body[q.body].throws THEN "rethrow" ELSE "none"
                    /\ last'.val = Some(AwaiterSlot(q).v)
                    /\ handle'[h] = NULL
                    /\ \A f \in 1..MaxFrames : frames'[f].st # "live"
    ]_vars

\* the awaiter, suspended at its co_await on a task that had one step
\* left, has been resumed and holds the awaited value
C18_Witness ==
    /\ last.op = "resume" /\ last.h \in Awaiters
    /\ Len(last.tr) = 2
    /\ NonEmpty(last.h)
    /\ FrameOf(last.h).done
    /\ FrameOf(last.h).stat = [idx |-> 1, v |-> 77]
    /\ FrameOf(last.h).q = [lazy |-> FALSE, body |-> "stepret"]
    /\ val = 90

\* the awaited error has been raised in the awaiter and its wait() raises it
C18_WitnessError ==
    /\ last.op = "wait" /\ last.h \in Awaiters
    /\ last.exc = "rethrow" /\ last.val = Some(9)
    /\ val = 21


\* the steps the awaited task q has had when it is built: one when eager
Started(q) == IF q.lazy THEN 0 ELSE 1
\* n times the frame f
Times(f, n) == [k \in 1..n |-> f]

\* C24: while the awaiter is suspended at its co_await the awaited task
\* stands where its construction left it: no operation steps it.  The one
\* resume() of the awaiter that follows steps the awaiter once and then the
\* awaited task through every suspension point it has left, however many,
\* up to its end, before the awaiter goes on.  Nothing else steps the
\* awaited task.
C24_NestedAwaitDrives ==
    [][\A h \in Awaiters :
        /\ (NonEmpty(h)' /\ ~FrameOf(h).done' /\ FrameOf(h).pc' = 2) =>
                LET F == FrameOf(h)'
                IN  /\ F.child # NULL
                    /\ frames'[F.child].st = "live" /\ ~frames'[F.child].done
                    /\ frames'[F.child].pc = 1 + Started(F.q)
        /\ (NonEmpty(h) /\ ~FrameOf(h).done /\ FrameOf(h).pc = 2) =>
                LET f  == handle[h]
                    fq == frames[f].child
                IN  /\ ~(last'.op \in {"resume", "wait", "destruct"}) => frames'[fq] = frames[fq]
                    /\ (last'.op \in {"resume", "wait"} /\ (AwResume(h) \/ AwWait(h))) =>
                          /\ last'.tr = << f >> \o Times(fq, Remaining(frames[fq]))
                          /\ Remaining(frames[fq]) = Len(Body[frames[f].q.body].segs) - Started(frames[f].q)
                          /\ frames'[fq].st = "destroyed"
                          /\ last'.op = "resume" => frames'[f].done /\ frames'[f].child = NULL
    ]_vars

\* the awaiter was suspended on a lazy task with three steps to its end,
\* and one resume() of the awaiter ran all three
C24_Witness ==
    /\ last.op = "resume" /\ last.h \in Awaiters /\ NonEmpty(last.h)
    /\ Len(last.tr) = 4
    /\ last.tr[1] = handle[last.h]
    /\ \A k \in 2..4 : last.tr[k] # handle[last.h]
    /\ FrameOf(last.h).done
    /\ FrameOf(last.h).stat = [idx |-> 1, v |-> 88]
    /\ val = 90

(* ------------------------- claims on the moves ------------------------- *)
\* C21: a move assignment destroys the frame the target held, gives the
\* target the frame of the source and leaves the source empty; a self
\* assignment changes neither the handle nor its frame.
C21_MoveAssignDiscards ==
    [][\A h, o \in Handles \cup Gens \cup Iters :
        (last'.op = "move=" /\ last'.h = h /\ last'.args = << o >>
           /\ (MoveAssign(h, o) \/ GenMoveAssign(h, o) \/ ItMoveAssign(h, o))) =>
            IF h = o
            THEN UNCHANGED << handle, frames, nframes, val, aborted >>
            ELSE /\ handle'[h] = handle[o]
                 /\ handle'[o] = NULL
                 /\ handle[h] # NULL => frames'[handle[h]].st = "destroyed"
    ]_vars

\* What holds instead: the target gets the frame of the source, the source
\* is left empty, a self assignment changes nothing, and no frame is
\* touched: the frame the target held stays as it was, live.
C21_MoveAssignKeepsFrame ==
    [][\A h, o \in Handles \cup Gens \cup Iters :
        (last'.op = "move=" /\ last'.h = h /\ last'.args = << o >>
           /\ (MoveAssign(h, o) \/ GenMoveAssign(h, o) \/ ItMoveAssign(h, o))) =>
            /\ UNCHANGED << frames, nframes, val, aborted >>
            /\ IF h = o
               THEN handle' = handle
               ELSE /\ handle'[h] = handle[o]
                    /\ handle'[o] = NULL
    ]_vars

\* a task holding a suspended frame has been assigned from another task,
\* and the frame it held is alive
C21_WitnessKept ==
    /\ last.op = "move=" /\ last.h \in Handles
    /\ last.args # << last.h >>
    /\ NonEmpty(last.h)
    /\ \E f \in 1..nframes :
         frames[f].st = "live" /\ ~frames[f].done /\ Owners(f) = {}

\* a handle has been assigned from itself and holds its frame
C21_WitnessSelf ==
    /\ last.op = "move=" /\ last.args = << last.h >>
    /\ NonEmpty(last.h)
    /\ Owners(handle[last.h]) = {last.h}


(* --------------------- the driving loops, step by step ----------------- *)
(* wait(), wait_all and wait_any with every resume() of their loops a step *)
(* of its own, to see whether the loops end.  The caller is one thread: a  *)
(* call that has started is the only thing that moves until it returns.    *)
(* The call under way is kept in last (exc "running"): the operand of the  *)
(* fold that is next (k, in the order the build evaluates them) and the    *)
(* accumulated bit (bool).  Besides bodies that end, a task may have the   *)
(* body for (;;) co_await suspend_always{};, which is never done.          *)
LoopBodies == {"set", "steps", "stepthrow", "forever"}

Running == last.exc = "running"

Call(op, args, order) ==
    [op |-> op, h |-> IF op = "wait" THEN args[1] ELSE "", args |-> args,
     exc |-> "running", val |-> None, bool |-> FALSE, tr |-> << >>, prev |-> "-",
     order |-> order, k |-> 1]

\* lazy_task<..> h = body()
LoopConstruct(h, bn) ==
    /\ ~aborted /\ ~Running
    /\ h \notin DOMAIN handle
    /\ nframes < MaxFrames
    /\ frames' = [frames EXCEPT ![nframes + 1] = NewFrame(bn)]
    /\ handle' = [x \in DOMAIN handle \cup {h} |-> IF x = h THEN nframes + 1 ELSE handle[x]]
    /\ nframes' = nframes + 1
    /\ last' = Last("lazy_task", h, "none", None, FALSE, << >>)
    /\ UNCHANGED << val, aborted >>

LoopDestruct(h) == ~Running /\ Destruct(h)

\* the body of resume() past the empty() check; a step of the endless body
\* leaves it where it was
ResumeLoop(S, h) ==
    IF S.fr[handle[h]].body = "forever" THEN S ELSE TaskResume(S, h)

\* one operand of the fold: (tasks.resume(), tasks.done())
LoopOperand(S, h, negate) ==
    IF Empty(h) THEN [S EXCEPT !.exc = "bad_coroutine_access"]
    ELSE LET S1 == ResumeLoop(S, h)
         IN  [S1 EXCEPT !.acc = @ \/ (S1.fr[handle[h]].done # negate)]

\* h.wait() is entered
CallWait(h) ==
    /\ ~aborted /\ ~Running
    /\ h \in DOMAIN handle
    /\ last' = IF Empty(h) THEN Last("wait", h, "bad_coroutine_access", None, FALSE, << >>)
               ELSE Call("wait", << h >>, << h >>)
    /\ UNCHANGED << handle, frames, nframes, val, aborted >>

\* wait_all(args...) / wait_any(args...) is entered
CallFold(op, args) ==
    /\ ~aborted /\ ~Running
    /\ args \in ArgLists
    /\ \E order \in EvalOrders(args) : last' = Call(op, args, order)
    /\ UNCHANGED << handle, frames, nframes, val, aborted >>

\* a loop that never goes round again
LoopAgainNever(op, acc) == FALSE

\* the loop condition once a pass is over: while (not_done) for wait_all,
\* while (!some_done) for wait_any
LoopAgain(op, acc) == IF op = "wait_all" THEN acc ELSE ~acc

\* the next step of the call under way.  wait(): the loop test, then one
\* co.resume(), or, the frame done, the sentry and the return.  The folds:
\* the next operand, and after the last operand the loop test.
LoopStep ==
    /\ Running
    /\ IF last.op = "wait"
       THEN LET h == last.h
                f == handle[h]
            IN  IF frames[f].done
                THEN /\ Commit(DestroyFrame(Here, f),
                               Last("wait", h, Outcome(frames[f]).exc, Outcome(frames[f]).val, FALSE, << >>))
                     /\ handle' = [handle EXCEPT ![h] = NULL]
                ELSE /\ Commit(ResumeLoop(Here, h), last)
                     /\ UNCHANGED handle
       ELSE LET S == LoopOperand([Here EXCEPT !.acc = last.bool], last.order[last.k],
                                 last.op = "wait_all")
            IN  /\ Commit(S, IF S.exc # "none" THEN LastN(last.op, last.args, S.exc, << >>)
                             ELSE IF last.k < Len(last.order)
                             THEN [last EXCEPT !.bool = S.acc, !.k = @ + 1]
                             ELSE IF LoopAgain(last.op, S.acc)
                             THEN [last EXCEPT !.bool = FALSE, !.k = 1]
                             ELSE LastN(last.op, last.args, "none", << >>))
                /\ UNCHANGED handle
    /\ UNCHANGED nframes

NextLoop ==
    \/ \E h \in Handles, bn \in LoopBodies : LoopConstruct(h, bn)
    \/ \E h \in Handles : LoopDestruct(h)
    \/ \E h \in Handles : CallWait(h)
    \/ \E op \in {"wait_all", "wait_any"}, args \in ArgLists : CallFold(op, args)
    \/ LoopStep

\* a call that has been entered goes on: the caller runs
SpecLoop == Init /\ [][NextLoop]_vars /\ WF_vars(LoopStep)

(* ---------------------- claims on the driving loops -------------------- *)
Min(a, b) == IF a < b THEN a ELSE b
\* the fewest steps any of the tasks has left
RECURSIVE MinRemaining(_)
MinRemaining(args) ==
    IF Len(args) = 1 THEN Remaining(FrameOf(args[1]))
    ELSE Min(Remaining(FrameOf(Head(args))), MinRemaining(Tail(args)))
\* the passes wait_any makes: one at least, and as many as it takes for
\* the first task to be done
AnyPasses(args) == IF MinRemaining(args) = 0 THEN 1 ELSE MinRemaining(args)
\* the frames stepped in pass k when the tasks are taken in `order`: those
\* not done when the pass starts
RECURSIVE PassSteps(_, _)
PassSteps(order, k) ==
    IF order = << >> THEN << >>
    ELSE (IF Remaining(FrameOf(Head(order))) >= k THEN << handle[Head(order)] >> ELSE << >>)
            \o PassSteps(Tail(order), k)
\* passes k..n, one after the other
RECURSIVE PassesFrom(_, _, _)
PassesFrom(order, k, n) ==
    IF k > n THEN << >> ELSE PassSteps(order, k) \o PassesFrom(order, k + 1, n)

\* C23: wait_any on non-empty tasks makes whole passes, one at least and
\* no more than it takes for some task to be done; a pass steps every task
\* that is not done, once, in the order of the arguments, also after a
\* task of the pass has become done.
C23_AnyPassesInOrder ==
    [][\A args \in ArgLists :
        (last'.op = "wait_any" /\ last'.args = args /\ AllNonEmpty(args)
           /\ ~aborted' /\ WaitAny(args)) =>
            last'.tr = PassesFrom(args, 1, AnyPasses(args))
    ]_vars

\* What holds instead: the same whole passes, the tasks of a pass taken in
\* the order of the arguments or in the reverse of it; every task gets one
\* step in each pass it is not done at the start of.
C23_AnyWholePasses ==
    [][\A args \in ArgLists :
        (last'.op = "wait_any" /\ last'.args = args /\ AllNonEmpty(args)
           /\ ~aborted' /\ WaitAny(args)) =>
            /\ last'.tr \in { PassesFrom(o, 1, AnyPasses(args)) : o \in EvalOrders(args) }
            /\ \A k \in DOMAIN args :
                 Count(last'.tr, handle[args[k]]) =
                     Min(Remaining(FrameOf(args[k])), AnyPasses(args))
    ]_vars

\* wait_any was given a done task first and a task not done second, and
\* the second got its one step
C23_WitnessDoneAtEntry ==
    /\ last.op = "wait_any" /\ Len(last.args) = 2 /\ ~aborted
    /\ \A k \in DOMAIN last.args : NonEmpty(last.args[k])
    /\ last.tr = << handle[last.args[2]] >>
    /\ ~FrameOf(last.args[2]).done


(* ------------------- claims on the end of the loops -------------------- *)
\* the tasks of the call under way
CallTasks == { last.args[k] : k \in DOMAIN last.args }
\* each of them ends after finitely many steps
AllEnd == \A h \in CallTasks : NonEmpty(h) => FrameOf(h).body # "forever"
\* none of them ever ends
NoneEnds == \A h \in CallTasks : NonEmpty(h) /\ FrameOf(h).body = "forever"

\* C27: a call of wait(), wait_all or wait_any on tasks that all end
\* returns.  wait() returns only when its task is done, wait_all only
\* when every task is done, wait_any only when some task is done; a call
\* of wait_any on tasks none of which ever ends never returns.
C27_LoopsTerminate ==
    /\ [][(Running /\ ~Running' /\ last'.exc # "bad_coroutine_access") =>
            /\ last.op = "wait" => frames[handle[last.h]].done
            /\ last.op = "wait_all" => \A h \in CallTasks : frames'[handle[h]].done
            /\ last.op = "wait_any" => \E h \in CallTasks : frames'[handle[h]].done
         ]_vars
    /\ (Running /\ AllEnd) ~> ~Running
    /\ []((Running /\ last.op = "wait_any" /\ NoneEnds) => []Running)

\* wait_all on two tasks, one with three steps to its end, has returned
\* with both done
C27_Witness ==
    /\ last.op = "wait_all" /\ last.exc = "none" /\ Len(last.args) = 2
    /\ \A h \in CallTasks : NonEmpty(h) /\ FrameOf(h).done
    /\ \E h \in CallTasks : FrameOf(h).body = "steps"

\* wait_any on a task that ends and one that never does has returned
C27_WitnessAny ==
    /\ last.op = "wait_any" /\ last.exc = "none" /\ Len(last.args) = 2
    /\ \E h \in CallTasks : NonEmpty(h) /\ FrameOf(h).body = "forever"
    /\ \E h \in CallTasks : NonEmpty(h) /\ FrameOf(h).done /\ FrameOf(h).body = "steps"

\* wait_any is under way on tasks that never end
C27_WitnessNever ==
    /\ Running /\ last.op = "wait_any" /\ Len(last.args) = 2 /\ NoneEnds

(* -------------------- claims on the life of a frame -------------------- *)
\* C26: no frame is destroyed twice and none is used after it is
\* destroyed.  A handle holds a live frame or none; a destroyed frame is
\* never stepped and never changes; a frame is destroyed by a call on the
\* one handle that holds it, and that handle does not hold it afterwards;
\* the destructor of a handle left empty (by wait(), by an advance that
\* ended the sequence, by a move or by begin()) touches no frame.
C26_NoUseAfterDestroy ==
    [][/\ \A h \in DOMAIN handle' :
            handle'[h] # NULL => frames'[handle'[h]].st = "live"
       /\ \A f \in 1..MaxFrames :
            /\ frames[f].st = "destroyed" =>
                  /\ frames'[f] = frames[f]
                  /\ Count(last'.tr, f) = 0
            /\ (frames[f].st # "destroyed" /\ frames'[f].st = "destroyed") =>
                  /\ frames[f].st = "live"
                  /\ Owners(f) = {last'.h} \/ (last'.op = "begin" /\ Cardinality(Owners(f)) = 1)
                  /\ Owners(f)' = {}
       /\ \A h \in DOMAIN handle :
            (last'.op = "destruct" /\ last'.h = h /\ handle[h] = NULL) =>
                  /\ frames' = frames
                  /\ h \notin DOMAIN handle'
    ]_vars

\* wait() has destroyed the frame and left its handle empty, and the
\* handle is still there to be destroyed
C26_Witness ==
    /\ last.op = "wait" /\ last.exc = "none" /\ last.tr # << >>
    /\ last.h \in DOMAIN handle /\ handle[last.h] = NULL
    /\ \E f \in 1..nframes : frames[f].st = "destroyed" /\ last.tr[1] = f

\* an advance has ended the sequence: the frame is destroyed and the
\* iterator, still there, is empty
C26_WitnessAdvance ==
    /\ last.op = "++" /\ last.exc = "none" /\ last.tr # << >>
    /\ last.h \in DOMAIN handle /\ handle[last.h] = NULL
    /\ frames[last.tr[1]].st = "destroyed"

\* the destructor of an emptied handle has run
C26_WitnessDestruct ==
    /\ last.op = "destruct" /\ last.h \notin DOMAIN handle
    /\ nframes >= 1
    /\ \A f \in 1..nframes : frames[f].st = "destroyed"

====
